---- MODULE Spec2Model ----
(***************************************************************************)
(* Verification model of the codeflash optimization pipeline.              *)
(*                                                                         *)
(*   SpecCritic : the acceptance critics of result/critic.py, applied to   *)
(*                inputs drawn from bounded sets.                          *)
(*   Spec       : Optimizer.run / optimize_function /                      *)
(*                determine_best_candidate of optimization/optimizer.py.   *)
(*   SpecMain   : Optimizer.run of main.py.                                *)
(***************************************************************************)
EXTENDS Integers, Sequences, FiniteSets, TLC

VARIABLES
  critic_call,      \* critic.py: the arguments of the critic call at hand
  critic_result     \* critic.py: what the call returned ("pending" before)

VARIABLES
  disk,                        \* content of the source files on disk
  pc,                          \* position of Optimizer.run in optimizer.py
  exc,                         \* the exception propagating out of the run, or "none"
  args,                        \* self.args.all, self.args.no_pr and CODEFLASH_PR_NUMBER
  functions_left,              \* functions of the file still to be optimized
  function_to_optimize,        \* the function being optimized ("none" between functions)
  validated_original_code,     \* source of the module file read at the top of the file loop
  code_context,                \* helper files / helper classes of the function being optimized
  original_helper_code,        \* dict: helper file path -> content read in optimize_function
  candidates,                  \* number of candidates of optimizations_set.control
  candidate_index,             \* enumerate(candidates, start=1)
  candidate,                   \* the candidate being evaluated
  original_code_baseline,      \* result of establish_original_code_baseline
  candidate_behavior_results,  \* behavioural TestResults of the candidate being evaluated
  run_results,                 \* OptimizedCandidateResult of the candidate being evaluated
  best_optimization,           \* BestOptimization | None (candidate.id = 0)
  best_runtime_until_now,
  results_log,                 \* per candidate visited: is_correct, optimized_runtimes, critic outcome
  optimizations_found,
  loop_entry_disk,             \* history: the files as they were when the candidate loop began
  test_files_on_disk           \* the generated and the instrumented test files that exist on disk

VARIABLES
  original_code,                  \* main.py: source of the file read before the loop over its functions
  instrumented_unittests_created, \* main.py: functions whose existing tests were instrumented
  baseline_index,                 \* main.py: i of the loop over the runs of the original code
  original_runtime,               \* main.py: None (0) or the least total runtime of the original
  best_runtime,
  times_run,
  generated_tests_elapsed_time,
  overall_original_test_results,
  original_gen_results,
  baseline_loops,                 \* history: the merged results of each run of the original code
  test_index,                     \* main.py: index of the loop over the runs of a candidate
  equal_results,
  all_test_times,
  optimized_test_results_iter,
  gen_test_results,               \* main.py: test_results, the generated-test results of a candidate run
  winning_test_results,
  test_files_to_preserve,         \* main.py: the generated test files the finally clause keeps
  elapsed_test_seconds            \* the seconds the test runs of the measurement loop at hand have taken

VARIABLES
  compare_call,     \* equivalence.py: the arguments of the compare_test_results call at hand
  compare_pc,       \* equivalence.py: the position of the call
  compare_frame     \* equivalence.py: the locals of the call, the ids it compared or skipped as
                    \* timed out so far (history), and what it returned

VARIABLES
  recursion_limit   \* the interpreter's recursion limit (sys.getrecursionlimit())

VARIABLES
  comparator_call,    \* comparator.py: the two values of the comparator call at hand
  comparator_result   \* comparator.py: what the call returned ("pending" before)

VARIABLES
  tracer_pc,                     \* tracer.py: "idle", "tracing" (sys.setprofile set) or "exited"
  function_count,                \* Tracer.function_count: qualified name -> captured returns
  ignored_qualified_functions,   \* Tracer.ignored_qualified_functions
  function_modules,              \* Tracer.function_modules
  events,                        \* the rows of the events table of the trace database
  frames,                        \* the traced program's stack of active calls
  replay_functions               \* the functions handed to create_trace_replay_test

VARIABLES
  generate_call,    \* which generate_tests_and_optimizations runs, and with which arguments
  generate_pc,      \* the position of the main thread in it and in the steps that follow
  futures,          \* the state and the outcome of every task given to the executor
  results_taken     \* the futures whose result() has returned to the main thread

criticVars == <<critic_call, critic_result>>

generateVars == <<generate_call, generate_pc, futures, results_taken>>

compareVars == <<compare_call, compare_pc, compare_frame>>

interpreterVars == <<recursion_limit>>

comparatorVars == <<comparator_call, comparator_result>>

tracerVars == <<tracer_pc, function_count, ignored_qualified_functions, function_modules,
                events, frames, replay_functions>>

mainVars == <<original_code, instrumented_unittests_created, baseline_index, original_runtime,
              best_runtime, times_run, generated_tests_elapsed_time,
              overall_original_test_results, original_gen_results, baseline_loops,
              test_index, equal_results, all_test_times, optimized_test_results_iter,
              gen_test_results, winning_test_results, test_files_to_preserve,
              elapsed_test_seconds>>

optVars == <<disk, pc, exc, args, functions_left, function_to_optimize, validated_original_code,
             code_context, original_helper_code, candidates, candidate_index, candidate,
             original_code_baseline, candidate_behavior_results, run_results,
             best_optimization, best_runtime_until_now, results_log, optimizations_found,
             loop_entry_disk, test_files_on_disk>>

vars == <<criticVars, compareVars, interpreterVars, comparatorVars, tracerVars, generateVars,
          optVars, mainVars>>

\* the variables of the interpreter, the comparator, the tracer and the thread pool
otherVars == <<interpreterVars, comparatorVars, tracerVars, generateVars>>

(***************************************************************************)
(* Bounds of the model.                                                    *)
(***************************************************************************)
\* longest TestResults list handed to quantity_of_tests_critic
MaxTests == 4
\* most candidates the AI service returns for one function
MaxCandidates == 3

(***************************************************************************)
(* Test results (codeflash.verification.test_results).                     *)
(***************************************************************************)
TestTypes == {"EXISTING_UNIT_TEST", "GENERATED_REGRESSION", "REPLAY_TEST", "CONCOLIC_COVERAGE_TEST"}

\* FunctionTestInvocation with the fields the pipeline reads
FunctionTestInvocation(id, test_type, did_pass, runtime, return_value, timed_out) ==
  [id |-> id, test_type |-> test_type, did_pass |-> did_pass, runtime |-> runtime,
   return_value |-> return_value, timed_out |-> timed_out,
   verification_type |-> "FUNCTION_CALL", stdout |-> <<>>]

\* TestResults.get_all_unique_invocation_loop_ids
get_all_unique_invocation_loop_ids(test_results) ==
  {test_results[i].id : i \in DOMAIN test_results}

NoInvocation == [id |-> 0]

\* TestResults.get_by_unique_invocation_loop_id: the invocation of that id, or None
get_by_unique_invocation_loop_id(test_results, test_id) ==
  IF \E i \in DOMAIN test_results : test_results[i].id = test_id
  THEN test_results[CHOOSE i \in DOMAIN test_results : test_results[i].id = test_id]
  ELSE NoInvocation

\* TestResults.get_test_pass_fail_report_by_type: per test type, the number
\* of passed and of failed invocations
get_test_pass_fail_report_by_type(test_results) ==
  [tt \in TestTypes |->
     [passed |-> Cardinality({i \in DOMAIN test_results :
                    test_results[i].test_type = tt /\ test_results[i].did_pass}),
      failed |-> Cardinality({i \in DOMAIN test_results :
                    test_results[i].test_type = tt /\ ~test_results[i].did_pass})]]

RECURSIVE SumOver(_, _)
SumOver(f, S) ==
  IF S = {} THEN 0
  ELSE LET x == CHOOSE y \in S : TRUE IN f[x] + SumOver(f, S \ {x})

(***************************************************************************)
(* result/critic.py                                                        *)
(***************************************************************************)
\* config_consts.MIN_IMPROVEMENT_THRESHOLD (0.05), as the fraction 5 / 100
MIN_IMPROVEMENT_THRESHOLD == <<5, 100>>

\* env_utils.get_pr_number: the environment variable CODEFLASH_PR_NUMBER as an
\* integer; 0 stands for "unset" (None), which bool() maps to False like 0
get_pr_number(env_pr) == env_pr

\* performance_gain: (original - optimized) / optimized, kept as the exact
\* fraction <<numerator, denominator>>; the division raises when optimized = 0
performance_gain(original_runtime_ns, optimized_runtime_ns) ==
  <<original_runtime_ns - optimized_runtime_ns, optimized_runtime_ns>>

performance_gain_raises(original_runtime_ns, optimized_runtime_ns) ==
  optimized_runtime_ns = 0

\* a / b > c / d for positive b and d
FracGT(x, y) == x[1] * y[2] > y[1] * x[2]

\* speedup_critic without the comparison with the best runtime so far
speedup_critic_ignores_best(candidate_result, original_code_runtime, best_runtime_so_far, env_pr) ==
  LET in_github_actions_mode == get_pr_number(env_pr) # 0
      floor1 == IF original_code_runtime < 10000
                THEN <<2 * MIN_IMPROVEMENT_THRESHOLD[1], MIN_IMPROVEMENT_THRESHOLD[2]>>
                ELSE MIN_IMPROVEMENT_THRESHOLD
      noise_floor == IF in_github_actions_mode THEN <<floor1[1] * 2, floor1[2]>> ELSE floor1
      perf_gain == performance_gain(original_code_runtime, candidate_result.best_test_runtime)
  IN  FracGT(perf_gain, noise_floor)

\* speedup_critic without the doubling of the noise floor below 10 microseconds
speedup_critic_no_doubling(candidate_result, original_code_runtime, best_runtime_so_far, env_pr) ==
  LET in_github_actions_mode == get_pr_number(env_pr) # 0
      noise_floor == IF in_github_actions_mode
                     THEN <<MIN_IMPROVEMENT_THRESHOLD[1] * 2, MIN_IMPROVEMENT_THRESHOLD[2]>>
                     ELSE MIN_IMPROVEMENT_THRESHOLD
      perf_gain == performance_gain(original_code_runtime, candidate_result.best_test_runtime)
  IN  FracGT(perf_gain, noise_floor)
      /\ candidate_result.best_test_runtime < best_runtime_so_far

speedup_critic(candidate_result, original_code_runtime, best_runtime_so_far, env_pr) ==
  LET in_github_actions_mode == get_pr_number(env_pr) # 0
      floor1 == IF original_code_runtime < 10000
                THEN <<2 * MIN_IMPROVEMENT_THRESHOLD[1], MIN_IMPROVEMENT_THRESHOLD[2]>>
                ELSE MIN_IMPROVEMENT_THRESHOLD
      noise_floor == IF in_github_actions_mode THEN <<floor1[1] * 2, floor1[2]>> ELSE floor1
      perf_gain == performance_gain(original_code_runtime, candidate_result.best_test_runtime)
  IN  FracGT(perf_gain, noise_floor)
      /\ candidate_result.best_test_runtime < best_runtime_so_far

\* quantity_of_tests_critic with the CI threshold off by one (3 instead of 4)
quantity_of_tests_critic_ci3(candidate_result, env_pr) ==
  LET test_results == candidate_result.best_test_results
      in_github_actions_mode == get_pr_number(env_pr) # 0
      report == get_test_pass_fail_report_by_type(test_results)
      pass_count == SumOver([tt \in TestTypes |-> report[tt].passed], TestTypes)
  IN  IF in_github_actions_mode /\ pass_count >= 3 THEN TRUE
      ELSE IF ~in_github_actions_mode /\ pass_count >= 2 THEN TRUE
      ELSE IF pass_count = 1 /\ report["REPLAY_TEST"].passed = 1 THEN TRUE
      ELSE FALSE

\* quantity_of_tests_critic counting failed tests as well as passed ones
quantity_of_tests_critic_counts_failed(candidate_result, env_pr) ==
  LET test_results == candidate_result.best_test_results
      in_github_actions_mode == get_pr_number(env_pr) # 0
      report == get_test_pass_fail_report_by_type(test_results)
      pass_count == SumOver([tt \in TestTypes |-> report[tt].passed + report[tt].failed], TestTypes)
  IN  IF in_github_actions_mode /\ pass_count >= 4 THEN TRUE
      ELSE IF ~in_github_actions_mode /\ pass_count >= 2 THEN TRUE
      ELSE IF pass_count = 1 /\ report["REPLAY_TEST"].passed = 1 THEN TRUE
      ELSE FALSE

quantity_of_tests_critic(candidate_result, env_pr) ==
  LET test_results == candidate_result.best_test_results
      in_github_actions_mode == get_pr_number(env_pr) # 0
      report == get_test_pass_fail_report_by_type(test_results)
      pass_count == SumOver([tt \in TestTypes |-> report[tt].passed], TestTypes)
  IN  IF in_github_actions_mode /\ pass_count >= 4 THEN TRUE
      ELSE IF ~in_github_actions_mode /\ pass_count >= 2 THEN TRUE
      ELSE IF pass_count = 1 /\ report["REPLAY_TEST"].passed = 1 THEN TRUE
      ELSE FALSE

(***************************************************************************)
(* verification/comparator.py and verification/equivalence.py              *)
(***************************************************************************)
\* Python values: a record of the exact type and the content.  A list or a
\* tuple holds a sequence of values; a dict holds its items in insertion
\* order as <<key, value>> pairs; a float holds an integer, or is NaN; a
\* Decimal holds an integer, or is a signaling NaN.
PyInt(n) == [type |-> "int", value |-> n]
PyBool(b) == [type |-> "bool", value |-> b]
PyStr(str) == [type |-> "str", value |-> str]
PyNone == [type |-> "NoneType", value |-> "None"]
PyFloat(n) == [type |-> "float", value |-> [nan |-> FALSE, x |-> n]]
PyNaN == [type |-> "float", value |-> [nan |-> TRUE, x |-> 0]]
PyDecimal(n) == [type |-> "Decimal", value |-> [snan |-> FALSE, x |-> n]]
PySignalingNaN == [type |-> "Decimal", value |-> [snan |-> TRUE, x |-> 0]]
PyList(elems) == [type |-> "list", value |-> elems]
PyTuple(elems) == [type |-> "tuple", value |-> elems]
PyDict(items) == [type |-> "dict", value |-> items]

Abs(n) == IF n < 0 THEN -n ELSE n

\* math.isclose with its default tolerances: rel_tol = 1e-09, abs_tol = 0
isclose(a, b) ==
  Abs(a - b) * 1000000000 <= (IF Abs(a) > Abs(b) THEN Abs(a) ELSE Abs(b))

\* the number a bool, an int or a float (other than NaN) stands for in ==
NumericTypes == {"bool", "int", "float"}
NumericValue(v) ==
  IF v.type = "bool" THEN (IF v.value THEN 1 ELSE 0)
  ELSE IF v.type = "float" THEN v.value.x
  ELSE v.value

\* Python's == on the hashable values used as dict keys: True == 1 == 1.0
py_eq(a, b) ==
  IF a.type \in NumericTypes /\ b.type \in NumericTypes
  THEN /\ ~(a.type = "float" /\ a.value.nan)
       /\ ~(b.type = "float" /\ b.value.nan)
       /\ NumericValue(a) = NumericValue(b)
  ELSE a.type = b.type /\ a.value = b.value

\* key in new, and new[key]
dict_has(items, key) == \E i \in DOMAIN items : py_eq(items[i][1], key)
dict_get(items, key) ==
  items[CHOOSE i \in DOMAIN items : py_eq(items[i][1], key)][2]

\* comparator: "True", "False", or the exception that leaves it.  The
\* RecursionError comparator catches needs a nesting deeper than the values of
\* the model and is left out; so are the branches of the optional libraries
\* (sqlalchemy, numpy, scipy, pandas).
RECURSIVE comparator_outcome(_, _)
RECURSIVE compare_elements(_, _, _)
RECURSIVE compare_items(_, _, _)

\* for elem1, elem2 in zip(orig, new)
compare_elements(orig, new, i) ==
  IF i > Len(orig) THEN "True"
  ELSE LET outcome == comparator_outcome(orig[i], new[i])
       IN  IF outcome # "True" THEN outcome ELSE compare_elements(orig, new, i + 1)

\* for key in orig
compare_items(orig, new, i) ==
  IF i > Len(orig) THEN "True"
  ELSE IF ~dict_has(new, orig[i][1]) THEN "False"
  ELSE LET outcome == comparator_outcome(orig[i][2], dict_get(new, orig[i][1]))
       IN  IF outcome # "True" THEN outcome ELSE compare_items(orig, new, i + 1)

\* variant: a list and a tuple count as one type
comparator_outcome_list_like(orig, new) ==
  IF orig.type # new.type /\ {orig.type, new.type} # {"list", "tuple"} THEN "False"
  ELSE IF orig.type \in {"list", "tuple"}
    THEN IF Len(orig.value) # Len(new.value) THEN "False"
         ELSE compare_elements(orig.value, new.value, 1)
  ELSE IF orig.type \in {"str", "int", "bool", "NoneType"}
    THEN IF orig.value = new.value THEN "True" ELSE "False"
  ELSE IF orig.type = "Decimal"
    THEN IF orig.value.snan \/ new.value.snan THEN "InvalidOperation"
         ELSE IF orig.value.x = new.value.x THEN "True" ELSE "False"
  ELSE IF orig.type = "float"
    THEN IF orig.value.nan /\ new.value.nan THEN "True"
         ELSE IF orig.value.nan \/ new.value.nan THEN "False"
         ELSE IF isclose(orig.value.x, new.value.x) THEN "True" ELSE "False"
  ELSE IF orig.type = "dict"
    THEN IF Len(orig.value) # Len(new.value) THEN "False"
         ELSE compare_items(orig.value, new.value, 1)
  ELSE "True"

\* variant: floats are compared by isclose alone, NaN or not
comparator_outcome_without_nan(orig, new) ==
  IF orig.type # new.type THEN "False"
  ELSE IF orig.type \in {"list", "tuple"}
    THEN IF Len(orig.value) # Len(new.value) THEN "False"
         ELSE compare_elements(orig.value, new.value, 1)
  ELSE IF orig.type \in {"str", "int", "bool", "NoneType"}
    THEN IF orig.value = new.value THEN "True" ELSE "False"
  ELSE IF orig.type = "Decimal"
    THEN IF orig.value.snan \/ new.value.snan THEN "InvalidOperation"
         ELSE IF orig.value.x = new.value.x THEN "True" ELSE "False"
  ELSE IF orig.type = "float"
    THEN IF orig.value.nan \/ new.value.nan THEN "False"
         ELSE IF isclose(orig.value.x, new.value.x) THEN "True" ELSE "False"
  ELSE IF orig.type = "dict"
    THEN IF Len(orig.value) # Len(new.value) THEN "False"
         ELSE compare_items(orig.value, new.value, 1)
  ELSE "True"

comparator_outcome(orig, new) ==
  IF orig.type # new.type THEN "False"
  ELSE IF orig.type \in {"list", "tuple"}
    THEN IF Len(orig.value) # Len(new.value) THEN "False"
         ELSE compare_elements(orig.value, new.value, 1)
  ELSE IF orig.type \in {"str", "int", "bool", "NoneType"}
    THEN IF orig.value = new.value THEN "True" ELSE "False"
  ELSE IF orig.type = "Decimal"
    THEN IF orig.value.snan \/ new.value.snan THEN "InvalidOperation"
         ELSE IF orig.value.x = new.value.x THEN "True" ELSE "False"
  ELSE IF orig.type = "float"
    THEN IF orig.value.nan /\ new.value.nan THEN "True"
         ELSE IF orig.value.nan \/ new.value.nan THEN "False"
         ELSE IF isclose(orig.value.x, new.value.x) THEN "True" ELSE "False"
  ELSE IF orig.type = "dict"
    THEN IF Len(orig.value) # Len(new.value) THEN "False"
         ELSE compare_items(orig.value, new.value, 1)
  ELSE "True"

\* comparator returns True
comparator(orig, new) == comparator_outcome(orig, new) = "True"

\* an exception leaves comparator
comparator_raises(orig, new) == comparator_outcome(orig, new) \notin {"True", "False"}

\* lines that cleanup_stdout drops: lines holding "test" or "codeflash", a
\* progress percentage or a pass-count summary
NoiseLines == {"test", "codeflash", "[100%]", "1 passed in 0.01s"}

cleanup_stdout(stdout) == PyStr(SelectSeq(stdout, LAMBDA line : line \notin NoiseLines))

\* one iteration of the loop over test_ids_superset: "skip" (continue before
\* the comparison), "unequal" (are_equal = False; break) or "compared"
CompareInvocation(original_test_result, cdd_test_result) ==
  IF cdd_test_result # NoInvocation /\ original_test_result = NoInvocation THEN "skip"
  ELSE IF original_test_result.verification_type = "INIT_STATE_HELPER"
          /\ cdd_test_result = NoInvocation THEN "skip"
  ELSE IF original_test_result = NoInvocation \/ cdd_test_result = NoInvocation THEN "unequal"
  ELSE IF original_test_result.timed_out THEN "compared"
  ELSE IF ~comparator(original_test_result.return_value, cdd_test_result.return_value)
       THEN "unequal"
  ELSE IF original_test_result.test_type \in {"EXISTING_UNIT_TEST", "CONCOLIC_COVERAGE_TEST"}
          /\ cdd_test_result.did_pass # original_test_result.did_pass THEN "unequal"
  ELSE IF ~comparator(cleanup_stdout(original_test_result.stdout),
                      cleanup_stdout(cdd_test_result.stdout)) THEN "unequal"
  ELSE "compared"

compare_test_results(original_results, candidate_results) ==
  IF Len(original_results) = 0 \/ Len(candidate_results) = 0 THEN FALSE
  ELSE
    LET test_ids_superset == get_all_unique_invocation_loop_ids(original_results)
                               \cup get_all_unique_invocation_loop_ids(candidate_results)
        outcome(test_id) ==
          CompareInvocation(get_by_unique_invocation_loop_id(original_results, test_id),
                            get_by_unique_invocation_loop_id(candidate_results, test_id))
        are_equal == \A test_id \in test_ids_superset : outcome(test_id) # "unequal"
        did_all_timeout ==
          \A test_id \in test_ids_superset :
             outcome(test_id) = "compared" =>
               get_by_unique_invocation_loop_id(original_results, test_id).timed_out
    IN  are_equal /\ ~did_all_timeout

\* TestResults.total_passed_runtime of a result list
RECURSIVE total_passed_runtime(_)
total_passed_runtime(test_results) ==
  IF test_results = <<>> THEN 0
  ELSE (IF Head(test_results).did_pass THEN Head(test_results).runtime ELSE 0)
         + total_passed_runtime(Tail(test_results))

(***************************************************************************)
(* Source files on disk.                                                   *)
(*                                                                         *)
(* A file content is abstracted to the version of each definition it holds *)
(* (0: the original text, n > 0: the text of candidate n) and whether the  *)
(* codeflash_capture instrumentation has been written into it.             *)
(***************************************************************************)
Functions == <<"f", "g">>
FunctionNames == {Functions[i] : i \in DOMAIN Functions}
ModulePath == "module.py"
HelperPath == "helper.py"
Paths == {ModulePath, HelperPath}

OriginalContent == [def |-> [n \in FunctionNames \cup {"helper"} |-> 0], capture |-> FALSE]

\* the identifier of candidate number i of function fn
RECURSIVE IndexOf(_, _)
IndexOf(seq, x) == IF Head(seq) = x THEN 1 ELSE 1 + IndexOf(Tail(seq), x)
CandidateId(fn, i) == (IndexOf(Functions, fn) - 1) * (MaxCandidates + 1) + i

NoCandidate == [id |-> 0, fto |-> FALSE, helper |-> FALSE]
NoBestOptimization == [candidate |-> NoCandidate, runtime |-> 0, winning_behavioral_test_results |-> <<>>]
NoBaseline == [ok |-> FALSE, runtime |-> 0, behavioral_test_results |-> <<>>]
NoCandidateResult == [best_test_runtime |-> 0, best_test_results |-> <<>>]
NoContext == [helper_paths |-> {}, is_method |-> FALSE, helper_class_paths |-> {}]

\* Optimizer.write_code_and_helpers: write original_code to path and every
\* entry of the original_helper_code dict to its path
write_code_and_helpers(files, code, helper_code, path) ==
  [p \in Paths |-> IF p \in DOMAIN helper_code THEN helper_code[p]
                   ELSE IF p = path THEN code
                   ELSE files[p]]

\* instrument_code: for a method, rewrite the file of the function and the
\* file of every helper class with the codeflash_capture decorator
instrument_code(files, context) ==
  IF ~context.is_method THEN files
  ELSE [p \in Paths |->
          IF p = ModulePath \/ p \in context.helper_class_paths
          THEN [files[p] EXCEPT !.capture = TRUE]
          ELSE files[p]]

\* replace_function_definitions_in_module for one module: the definitions of
\* the candidate replace those of the file; True iff the file text changed
ReplacedModule(content, fn, cand, path) ==
  IF path = ModulePath /\ cand.fto THEN [content EXCEPT !.def[fn] = cand.id]
  ELSE IF path # ModulePath /\ cand.helper THEN [content EXCEPT !.def["helper"] = cand.id]
  ELSE content

\* the paths replace_function_and_helpers_with_optimized_code visits: the
\* file of the function and the files of the helpers that are not classes
ReadWritablePaths(context) ==
  {ModulePath} \cup (context.helper_paths \ context.helper_class_paths)

replace_function_and_helpers_with_optimized_code(files, context, fn, cand) ==
  [p \in Paths |-> IF p \in ReadWritablePaths(context)
                   THEN ReplacedModule(files[p], fn, cand, p)
                   ELSE files[p]]

did_update(files, context, fn, cand) ==
  replace_function_and_helpers_with_optimized_code(files, context, fn, cand) # files

EmptyDict == [p \in {} |-> OriginalContent]

\* the test files written for a function: the generated tests (behaviour and
\* performance versions) and the instrumented copies of its existing tests,
\* those of an existing unit test file and (optimizer.py) those of a replay
\* test file
GeneratedTest(fn) == [fn |-> fn, kind |-> "generated"]
InstrumentedTest(fn) == [fn |-> fn, kind |-> "instrumented"]
InstrumentedReplayTest(fn) == [fn |-> fn, kind |-> "instrumented_replay"]
TestFilesOf(fn) == {GeneratedTest(fn), InstrumentedTest(fn), InstrumentedReplayTest(fn)}

\* optimizer.py, run(): the files of self.test_files that the finally clause
\* unlinks, those of type GENERATED_REGRESSION and EXISTING_UNIT_TEST
UnlinkedByFinally(fn) == {GeneratedTest(fn), InstrumentedTest(fn)}

\* code_utils.cleanup_paths: unlink every path of the list that exists
cleanup_paths(files, paths) == files \ paths

\* the exception in flight: its type and the step of the run that raised it
NoException == [type |-> "none", raised_at |-> "none"]

OptIdle ==
  /\ disk = [p \in Paths |-> OriginalContent]
  /\ pc = "idle"
  /\ exc = NoException
  /\ args = [all |-> FALSE, no_pr |-> TRUE, env_pr |-> 0]
  /\ functions_left = <<>>
  /\ function_to_optimize = "none"
  /\ validated_original_code = OriginalContent
  /\ code_context = NoContext
  /\ original_helper_code = EmptyDict
  /\ candidates = 0
  /\ candidate_index = 0
  /\ candidate = NoCandidate
  /\ original_code_baseline = NoBaseline
  /\ candidate_behavior_results = <<>>
  /\ run_results = NoCandidateResult
  /\ best_optimization = NoBestOptimization
  /\ best_runtime_until_now = 0
  /\ results_log = <<>>
  /\ optimizations_found = 0
  /\ loop_entry_disk = [p \in Paths |-> OriginalContent]
  /\ test_files_on_disk = {}

MainIdle ==
  /\ original_code = OriginalContent
  /\ instrumented_unittests_created = {}
  /\ baseline_index = 0
  /\ original_runtime = 0
  /\ best_runtime = 0
  /\ times_run = 0
  /\ generated_tests_elapsed_time = 0
  /\ overall_original_test_results = <<>>
  /\ original_gen_results = <<>>
  /\ baseline_loops = <<>>
  /\ test_index = 0
  /\ equal_results = TRUE
  /\ all_test_times = <<>>
  /\ optimized_test_results_iter = <<>>
  /\ gen_test_results = <<>>
  /\ winning_test_results = <<>>
  /\ test_files_to_preserve = {}
  /\ elapsed_test_seconds = 0

(***************************************************************************)
(* SpecCritic: the critics applied to bounded inputs.                      *)
(***************************************************************************)
CriticRuntimes == {0, 600, 800, 940, 1000, 9999, 10000, 94000, 100000}
CriticOriginals == {1000, 9999, 10000, 100000}
PrNumbers == {0, 7}

InvocationKinds == TestTypes \X BOOLEAN

SeqsUpTo(S, n) == UNION {[1..k -> S] : k \in 0..n}

\* the TestResults list whose i-th invocation has the i-th (type, did_pass)
ResultsOfKinds(kinds) ==
  [i \in DOMAIN kinds |->
     FunctionTestInvocation(i, kinds[i][1], kinds[i][2], 0, PyInt(0), FALSE)]

SpeedupCalls ==
  [fn : {"speedup_critic"}, best_test_runtime : CriticRuntimes,
   original_code_runtime : CriticOriginals, best_runtime_until_now : CriticRuntimes \ {0},
   env_pr : PrNumbers]

QuantityCalls ==
  {[fn |-> "quantity_of_tests_critic", best_test_results |-> ResultsOfKinds(k), env_pr |-> p] :
     k \in SeqsUpTo(InvocationKinds, MaxTests), p \in PrNumbers}

CriticIdle == critic_call = [fn |-> "none"] /\ critic_result = "pending"

NoFrame == [test_ids_left |-> {}, are_equal |-> TRUE, did_all_timeout |-> TRUE,
            compared |-> {}, timeout_skipped |-> {}, returned |-> "pending",
            original_recursion_limit |-> 0, recursion_limit_at_call |-> 0]

CompareIdle == compare_call = [fn |-> "none"] /\ compare_pc = "idle" /\ compare_frame = NoFrame

\* the recursion limit a Python interpreter starts with
DefaultRecursionLimit == 1000

InterpreterIdle == recursion_limit = DefaultRecursionLimit

ComparatorIdle == comparator_call = [fn |-> "none"] /\ comparator_result = "pending"

TracerIdle ==
  /\ tracer_pc = "idle"
  /\ function_count = <<>>
  /\ ignored_qualified_functions = {}
  /\ function_modules = <<>>
  /\ events = <<>>
  /\ frames = <<>>
  /\ replay_functions = <<>>

\* the number of regression test files requested for one function
N_TESTS_TO_GENERATE == 2

Future(name, index) == [name |-> name, index |-> index]

\* the futures of generate_and_instrument_tests, one per test index
future_tests == {Future("future_tests", i) : i \in 0..(N_TESTS_TO_GENERATE - 1)}

\* the tasks of the executors of optimizer.py and main.py
FutureNames ==
  future_tests \cup {Future("future_optimization_candidates", 0),
                     Future("future_concolic_tests", 0),
                     Future("future_candidates_exp", 0),
                     Future("future_optimization", 0)}

NotSubmitted == [state |-> "unsubmitted", outcome |-> "none"]

GenerateIdle ==
  /\ generate_call = [source |-> "none", run_experiment |-> FALSE]
  /\ generate_pc = "idle"
  /\ futures = [t \in FutureNames |-> NotSubmitted]
  /\ results_taken = <<>>

OtherIdle == InterpreterIdle /\ ComparatorIdle /\ TracerIdle /\ GenerateIdle

InitCritic ==
  /\ critic_call \in SpeedupCalls \cup QuantityCalls
  /\ critic_result = "pending"
  /\ CompareIdle
  /\ OtherIdle
  /\ OptIdle
  /\ MainIdle

BoolName(b) == IF b THEN "True" ELSE "False"

CallSpeedupCritic ==
  /\ critic_result = "pending"
  /\ critic_call.fn = "speedup_critic"
  /\ critic_result' =
       IF performance_gain_raises(critic_call.original_code_runtime, critic_call.best_test_runtime)
       THEN "ZeroDivisionError"
       ELSE BoolName(speedup_critic([best_test_runtime |-> critic_call.best_test_runtime],
                                    critic_call.original_code_runtime,
                                    critic_call.best_runtime_until_now, critic_call.env_pr))
  /\ UNCHANGED <<critic_call, optVars, mainVars, compareVars, otherVars>>

CallQuantityCritic ==
  /\ critic_result = "pending"
  /\ critic_call.fn = "quantity_of_tests_critic"
  /\ critic_result' =
       BoolName(quantity_of_tests_critic([best_test_results |-> critic_call.best_test_results],
                                         critic_call.env_pr))
  /\ UNCHANGED <<critic_call, optVars, mainVars, compareVars, otherVars>>

NextCritic == CallSpeedupCritic \/ CallQuantityCritic

SpecCritic == InitCritic /\ [][NextCritic]_vars

(***************************************************************************)
(* SpecComparator: comparator of verification/comparator.py, applied to    *)
(* pairs of values drawn from a bounded set of Python values.              *)
(***************************************************************************)
Scalars == {PyInt(1), PyInt(2), PyFloat(1), PyNaN, PyNone, PyBool(TRUE), PyStr("a")}

\* the keys of the dicts of the model: 1, 1.0 and True are equal keys in Python
DictKeys == {PyStr("a"), PyInt(1), PyFloat(1), PyBool(TRUE)}

\* the sequences of at most two values of a set
ShortSeqs(S) == {<<>>} \cup {<<a>> : a \in S} \cup {<<a, b>> : a \in S, b \in S}

\* scalars, and the lists, tuples and dicts of scalars
FlatValues ==
  Scalars
    \cup {PyList(elems) : elems \in ShortSeqs(Scalars)}
    \cup {PyTuple(elems) : elems \in ShortSeqs(Scalars)}
    \cup {PyDict(<<>>)}
    \cup {PyDict(<<<<k, v>>>>) : k \in DictKeys, v \in Scalars}

\* and the one-element lists, tuples and dicts of those
PyValues ==
  FlatValues
    \cup {PyList(<<v>>) : v \in FlatValues}
    \cup {PyTuple(<<v>>) : v \in FlatValues}
    \cup {PyDict(<<<<PyStr("a"), v>>>>) : v \in FlatValues}

InitComparator ==
  /\ \E orig \in PyValues, new \in PyValues :
       comparator_call = [fn |-> "comparator", orig |-> orig, new |-> new]
  /\ comparator_result = "pending"
  /\ InterpreterIdle
  /\ TracerIdle
  /\ GenerateIdle
  /\ CriticIdle
  /\ CompareIdle
  /\ OptIdle
  /\ MainIdle

CallComparator ==
  /\ comparator_result = "pending"
  /\ comparator_call.fn = "comparator"
  /\ comparator_result' = comparator_outcome(comparator_call.orig, comparator_call.new)
  /\ UNCHANGED <<comparator_call, interpreterVars, tracerVars, generateVars, criticVars,
                 compareVars, optVars, mainVars>>

NextComparator == CallComparator

SpecComparator == InitComparator /\ [][NextComparator]_vars

(***************************************************************************)
(* SpecCompare: compare_test_results of verification/equivalence.py,       *)
(* step by step, on bounded inputs.  The loop visits test_ids_superset, a  *)
(* set, in an order the program does not control.  The return-value and    *)
(* stdout comparisons are those of comparator.py.                          *)
(***************************************************************************)
InvocationIds == {1, 2}
CompareTestTypes == {"EXISTING_UNIT_TEST", "GENERATED_REGRESSION"}
VerificationTypes == {"FUNCTION_CALL", "INIT_STATE_HELPER"}

\* the stdout of the original code (a pass-count summary of the test
\* framework) and what a candidate can print
OriginalStdout == <<"1 passed in 0.01s">>
CandidateStdouts == {<<>>, <<"out">>}

\* the invocations of one id in the results of the original code
OriginalInvocations(id, tt) ==
  {[FunctionTestInvocation(id, tt, dp, 0, PyInt(1), to) EXCEPT
      !.verification_type = vt, !.stdout = OriginalStdout] :
     dp \in BOOLEAN, to \in BOOLEAN, vt \in VerificationTypes}
  \cup {[FunctionTestInvocation(id, tt, TRUE, 0, PySignalingNaN, FALSE) EXCEPT
           !.stdout = OriginalStdout]}

\* the invocations of one id in the results of a candidate
CandidateInvocations(id, tt) ==
  {[FunctionTestInvocation(id, tt, dp, 0, PyInt(rv), to) EXCEPT !.stdout = out] :
     dp \in BOOLEAN, rv \in {1, 2}, to \in BOOLEAN, out \in CandidateStdouts}
  \cup {FunctionTestInvocation(id, tt, TRUE, 0, PySignalingNaN, FALSE)}

\* the TestResults list of the invocations that are present
ResultsOf(a, b) ==
  (IF a = NoInvocation THEN <<>> ELSE <<a>>) \o (IF b = NoInvocation THEN <<>> ELSE <<b>>)

\* equivalence.py
INCREASED_RECURSION_LIMIT == 5000

\* the recursion limit at the call: the interpreter's default, or one the
\* program has raised beyond INCREASED_RECURSION_LIMIT
RecursionLimits == {DefaultRecursionLimit, 10000}

\* a call of compare_test_results: each id has one test type, and is present
\* or absent on each side
CompareCall(tt, o1, o2, c1, c2) ==
  [fn |-> "compare_test_results",
   original_results |-> ResultsOf(o1, o2),
   candidate_results |-> ResultsOf(c1, c2)]

InitCompare ==
  /\ \E tt \in [InvocationIds -> CompareTestTypes] :
       \E o1 \in {NoInvocation} \cup OriginalInvocations(1, tt[1]),
          o2 \in {NoInvocation} \cup OriginalInvocations(2, tt[2]),
          c1 \in {NoInvocation} \cup CandidateInvocations(1, tt[1]),
          c2 \in {NoInvocation} \cup CandidateInvocations(2, tt[2]) :
         compare_call = CompareCall(tt, o1, o2, c1, c2)
  /\ compare_pc = "entry"
  /\ compare_frame = NoFrame
  /\ recursion_limit \in RecursionLimits
  /\ CriticIdle
  /\ ComparatorIdle
  /\ TracerIdle
  /\ GenerateIdle
  /\ OptIdle
  /\ MainIdle

\* variant: empty results compare equal
CompareEntry_empty_is_equal ==
  /\ compare_pc = "entry"
  /\ IF Len(compare_call.original_results) = 0 \/ Len(compare_call.candidate_results) = 0
     THEN /\ compare_frame' = [compare_frame EXCEPT !.returned = "True",
                                                     !.recursion_limit_at_call = recursion_limit]
          /\ compare_pc' = "returned"
          /\ UNCHANGED recursion_limit
     ELSE /\ compare_frame' =
               [compare_frame EXCEPT
                  !.recursion_limit_at_call = recursion_limit,
                  !.original_recursion_limit = recursion_limit,
                  !.test_ids_left =
                     get_all_unique_invocation_loop_ids(compare_call.original_results)
                       \cup get_all_unique_invocation_loop_ids(compare_call.candidate_results),
                  !.are_equal = TRUE,
                  !.did_all_timeout = TRUE]
          /\ recursion_limit' = IF recursion_limit < INCREASED_RECURSION_LIMIT
                                THEN INCREASED_RECURSION_LIMIT
                                ELSE recursion_limit
          /\ compare_pc' = "loop"
  /\ UNCHANGED <<compare_call, criticVars, comparatorVars, tracerVars, generateVars,
                 optVars, mainVars>>

\* compare_test_results: the test of the lengths, then the set of ids and the
\* two flags
CompareEntry ==
  /\ compare_pc = "entry"
  /\ IF Len(compare_call.original_results) = 0 \/ Len(compare_call.candidate_results) = 0
     THEN /\ compare_frame' = [compare_frame EXCEPT !.returned = "False",
                                                     !.recursion_limit_at_call = recursion_limit]
          /\ compare_pc' = "returned"
          /\ UNCHANGED recursion_limit
     ELSE /\ compare_frame' =
               [compare_frame EXCEPT
                  !.recursion_limit_at_call = recursion_limit,
                  !.original_recursion_limit = recursion_limit,
                  !.test_ids_left =
                     get_all_unique_invocation_loop_ids(compare_call.original_results)
                       \cup get_all_unique_invocation_loop_ids(compare_call.candidate_results),
                  !.are_equal = TRUE,
                  !.did_all_timeout = TRUE]
          /\ recursion_limit' = IF recursion_limit < INCREASED_RECURSION_LIMIT
                                THEN INCREASED_RECURSION_LIMIT
                                ELSE recursion_limit
          /\ compare_pc' = "loop"
  /\ UNCHANGED <<compare_call, criticVars, comparatorVars, tracerVars, generateVars,
                 optVars, mainVars>>

\* variant: the pass/fail flags are not compared
InvocationPath_without_did_pass(original_test_result, cdd_test_result) ==
  IF cdd_test_result # NoInvocation /\ original_test_result = NoInvocation THEN "candidate_only"
  ELSE IF original_test_result.verification_type = "INIT_STATE_HELPER"
          /\ cdd_test_result = NoInvocation THEN "helper_state_absent"
  ELSE IF original_test_result = NoInvocation \/ cdd_test_result = NoInvocation THEN "missing"
  ELSE IF original_test_result.timed_out THEN "timed_out"
  ELSE IF comparator_raises(original_test_result.return_value, cdd_test_result.return_value)
       THEN "raises"
  ELSE IF ~comparator(original_test_result.return_value, cdd_test_result.return_value)
       THEN "return_value"
  ELSE IF ~comparator(cleanup_stdout(original_test_result.stdout),
                      cleanup_stdout(cdd_test_result.stdout)) THEN "stdout"
  ELSE "equal"

\* variant: an id is skipped for a timeout only when both sides timed out
InvocationPath_both_timed_out(original_test_result, cdd_test_result) ==
  IF cdd_test_result # NoInvocation /\ original_test_result = NoInvocation THEN "candidate_only"
  ELSE IF original_test_result.verification_type = "INIT_STATE_HELPER"
          /\ cdd_test_result = NoInvocation THEN "helper_state_absent"
  ELSE IF original_test_result = NoInvocation \/ cdd_test_result = NoInvocation THEN "missing"
  ELSE IF original_test_result.timed_out /\ cdd_test_result.timed_out THEN "timed_out"
  ELSE IF comparator_raises(original_test_result.return_value, cdd_test_result.return_value)
       THEN "raises"
  ELSE IF ~comparator(original_test_result.return_value, cdd_test_result.return_value)
       THEN "return_value"
  ELSE IF original_test_result.test_type \in {"EXISTING_UNIT_TEST", "CONCOLIC_COVERAGE_TEST"}
          /\ cdd_test_result.did_pass # original_test_result.did_pass THEN "did_pass"
  ELSE IF ~comparator(cleanup_stdout(original_test_result.stdout),
                      cleanup_stdout(cdd_test_result.stdout)) THEN "stdout"
  ELSE "equal"

\* variant: an id of the candidate alone counts as a missing invocation
InvocationPath_candidate_only_unequal(original_test_result, cdd_test_result) ==
  IF original_test_result # NoInvocation
        /\ original_test_result.verification_type = "INIT_STATE_HELPER"
        /\ cdd_test_result = NoInvocation THEN "helper_state_absent"
  ELSE IF original_test_result = NoInvocation \/ cdd_test_result = NoInvocation THEN "missing"
  ELSE IF original_test_result.timed_out THEN "timed_out"
  ELSE IF comparator_raises(original_test_result.return_value, cdd_test_result.return_value)
       THEN "raises"
  ELSE IF ~comparator(original_test_result.return_value, cdd_test_result.return_value)
       THEN "return_value"
  ELSE IF original_test_result.test_type \in {"EXISTING_UNIT_TEST", "CONCOLIC_COVERAGE_TEST"}
          /\ cdd_test_result.did_pass # original_test_result.did_pass THEN "did_pass"
  ELSE IF ~comparator(cleanup_stdout(original_test_result.stdout),
                      cleanup_stdout(cdd_test_result.stdout)) THEN "stdout"
  ELSE "equal"

\* variant: an id of the original alone is passed over, helper state or not
InvocationPath_original_only_skipped(original_test_result, cdd_test_result) ==
  IF cdd_test_result # NoInvocation /\ original_test_result = NoInvocation THEN "candidate_only"
  ELSE IF cdd_test_result = NoInvocation THEN "helper_state_absent"
  ELSE IF original_test_result.timed_out THEN "timed_out"
  ELSE IF comparator_raises(original_test_result.return_value, cdd_test_result.return_value)
       THEN "raises"
  ELSE IF ~comparator(original_test_result.return_value, cdd_test_result.return_value)
       THEN "return_value"
  ELSE IF original_test_result.test_type \in {"EXISTING_UNIT_TEST", "CONCOLIC_COVERAGE_TEST"}
          /\ cdd_test_result.did_pass # original_test_result.did_pass THEN "did_pass"
  ELSE IF ~comparator(cleanup_stdout(original_test_result.stdout),
                      cleanup_stdout(cdd_test_result.stdout)) THEN "stdout"
  ELSE "equal"

\* the branch the body of the loop takes for one id
InvocationPath(original_test_result, cdd_test_result) ==
  IF cdd_test_result # NoInvocation /\ original_test_result = NoInvocation THEN "candidate_only"
  ELSE IF original_test_result.verification_type = "INIT_STATE_HELPER"
          /\ cdd_test_result = NoInvocation THEN "helper_state_absent"
  ELSE IF original_test_result = NoInvocation \/ cdd_test_result = NoInvocation THEN "missing"
  ELSE IF original_test_result.timed_out THEN "timed_out"
  ELSE IF comparator_raises(original_test_result.return_value, cdd_test_result.return_value)
       THEN "raises"
  ELSE IF ~comparator(original_test_result.return_value, cdd_test_result.return_value)
       THEN "return_value"
  ELSE IF original_test_result.test_type \in {"EXISTING_UNIT_TEST", "CONCOLIC_COVERAGE_TEST"}
          /\ cdd_test_result.did_pass # original_test_result.did_pass THEN "did_pass"
  ELSE IF ~comparator(cleanup_stdout(original_test_result.stdout),
                      cleanup_stdout(cdd_test_result.stdout)) THEN "stdout"
  ELSE "equal"

\* compare_test_results: the body of the loop for one id of the set
CompareIteration ==
  /\ compare_pc = "loop"
  /\ \E test_id \in compare_frame.test_ids_left :
       LET original_test_result ==
             get_by_unique_invocation_loop_id(compare_call.original_results, test_id)
           cdd_test_result ==
             get_by_unique_invocation_loop_id(compare_call.candidate_results, test_id)
           path == InvocationPath(original_test_result, cdd_test_result)
           left == compare_frame.test_ids_left \ {test_id}
       IN  CASE path \in {"candidate_only", "helper_state_absent"} ->
                  /\ compare_frame' = [compare_frame EXCEPT !.test_ids_left = left]
                  /\ compare_pc' = "loop"
             [] path = "missing" ->
                  /\ compare_frame' = [compare_frame EXCEPT !.test_ids_left = left,
                                                            !.are_equal = FALSE]
                  /\ compare_pc' = "after_loop"
             [] path = "timed_out" ->
                  /\ compare_frame' =
                       [compare_frame EXCEPT
                          !.test_ids_left = left,
                          !.timeout_skipped = compare_frame.timeout_skipped \cup {test_id}]
                  /\ compare_pc' = "loop"
             [] path \in {"return_value", "did_pass", "stdout"} ->
                  /\ compare_frame' =
                       [compare_frame EXCEPT
                          !.test_ids_left = left,
                          !.did_all_timeout = FALSE,
                          !.compared = compare_frame.compared \cup {test_id},
                          !.are_equal = FALSE]
                  /\ compare_pc' = "after_loop"
             [] path = "raises" ->
                  /\ compare_frame' =
                       [compare_frame EXCEPT
                          !.test_ids_left = left,
                          !.did_all_timeout = FALSE,
                          !.compared = compare_frame.compared \cup {test_id},
                          !.returned = comparator_outcome(original_test_result.return_value,
                                                          cdd_test_result.return_value)]
                  /\ compare_pc' = "raised"
             [] path = "equal" ->
                  /\ compare_frame' =
                       [compare_frame EXCEPT
                          !.test_ids_left = left,
                          !.did_all_timeout = FALSE,
                          !.compared = compare_frame.compared \cup {test_id}]
                  /\ compare_pc' = "loop"
  /\ UNCHANGED <<compare_call, recursion_limit, criticVars, comparatorVars, tracerVars, generateVars,
                 optVars, mainVars>>

\* compare_test_results: the loop has visited every id
CompareLoopEnd ==
  /\ compare_pc = "loop"
  /\ compare_frame.test_ids_left = {}
  /\ compare_pc' = "after_loop"
  /\ UNCHANGED <<compare_call, compare_frame, recursion_limit, criticVars, comparatorVars, tracerVars, generateVars,
                 optVars, mainVars>>

\* variant: the result is are_equal, whatever did_all_timeout is
CompareReturn_ignores_timeouts ==
  /\ compare_pc = "after_loop"
  /\ compare_frame' = [compare_frame EXCEPT !.returned = BoolName(compare_frame.are_equal)]
  /\ recursion_limit' = compare_frame.original_recursion_limit
  /\ compare_pc' = "returned"
  /\ UNCHANGED <<compare_call, criticVars, comparatorVars, tracerVars, generateVars,
                 optVars, mainVars>>

\* compare_test_results: False if did_all_timeout, else are_equal
CompareReturn ==
  /\ compare_pc = "after_loop"
  /\ compare_frame' =
       [compare_frame EXCEPT
          !.returned = IF compare_frame.did_all_timeout THEN "False"
                       ELSE BoolName(compare_frame.are_equal)]
  /\ recursion_limit' = compare_frame.original_recursion_limit
  /\ compare_pc' = "returned"
  /\ UNCHANGED <<compare_call, criticVars, comparatorVars, tracerVars, generateVars,
                 optVars, mainVars>>

NextCompare == CompareEntry \/ CompareIteration \/ CompareLoopEnd \/ CompareReturn

SpecCompare == InitCompare /\ [][NextCompare]_vars

(***************************************************************************)
(* The thread pool of test generation and candidate generation:            *)
(* generate_tests_and_optimizations of optimization/optimizer.py and the   *)
(* executor block of main.py.  The main thread submits the tasks, the      *)
(* workers of the pool take them up and finish them in any order, and the  *)
(* main thread collects the results, leaves the executor and goes on to    *)
(* instrument and to measure the baseline.                                 *)
(***************************************************************************)
GenerateCalls ==
  {[source |-> "optimizer", run_experiment |-> e] : e \in BOOLEAN}
    \cup {[source |-> "main", run_experiment |-> FALSE]}

\* what a task hands to its future: a usable result, a falsy one, or an exception
FutureOutcomes == {"value", "empty", "exception"}

RECURSIVE SeqOfTests(_)
SeqOfTests(n) == IF n = 0 THEN <<>> ELSE Append(SeqOfTests(n - 1), Future("future_tests", n - 1))

\* the order of the executor.submit calls
SubmitOrder(call) ==
  IF call.source = "main"
    THEN <<Future("future_tests", 0), Future("future_optimization", 0)>>
    ELSE SeqOfTests(N_TESTS_TO_GENERATE)
           \o <<Future("future_optimization_candidates", 0), Future("future_concolic_tests", 0)>>
           \o (IF call.run_experiment THEN <<Future("future_candidates_exp", 0)>> ELSE <<>>)

\* the order of the result() calls
ResultOrder(call) ==
  IF call.source = "main"
    THEN <<Future("future_tests", 0), Future("future_optimization", 0)>>
    ELSE <<Future("future_optimization_candidates", 0)>>
           \o (IF call.run_experiment THEN <<Future("future_candidates_exp", 0)>> ELSE <<>>)
           \o SeqOfTests(N_TESTS_TO_GENERATE)
           \o <<Future("future_concolic_tests", 0)>>

max_workers(call) ==
  IF call.source = "main" THEN 2
  ELSE IF call.run_experiment THEN N_TESTS_TO_GENERATE + 3 ELSE N_TESTS_TO_GENERATE + 2

Range(seq) == {seq[i] : i \in 1..Len(seq)}

Submitted == {t \in FutureNames : futures[t].state # "unsubmitted"}

Running == {t \in FutureNames : futures[t].state = "running"}

\* the main thread blocks on a future until it holds a result or an exception
done_without_blocking(t) == TRUE

done(t) == futures[t].state = "finished"

InitGenerate ==
  /\ generate_call \in GenerateCalls
  /\ generate_pc = "submit"
  /\ futures = [t \in FutureNames |-> NotSubmitted]
  /\ results_taken = <<>>
  /\ InterpreterIdle
  /\ ComparatorIdle
  /\ TracerIdle
  /\ CriticIdle
  /\ CompareIdle
  /\ OptIdle
  /\ MainIdle

GenerateUnchanged ==
  UNCHANGED <<interpreterVars, comparatorVars, tracerVars, criticVars, compareVars,
              optVars, mainVars>>

\* executor.submit: the next task of the submit order is queued
Submit ==
  /\ generate_pc = "submit"
  /\ LET order == SubmitOrder(generate_call)
         n == Cardinality(Submitted)
     IN /\ n < Len(order)
        /\ futures' = [futures EXCEPT ![order[n + 1]].state = "pending"]
        /\ generate_pc' =
             IF n + 1 < Len(order) THEN "submit"
             ELSE IF generate_call.source = "main" THEN "results" ELSE "wait"
  /\ UNCHANGED <<generate_call, results_taken>>
  /\ GenerateUnchanged

\* a worker thread of the pool takes up a queued task
WorkerStart(t) ==
  /\ futures[t].state = "pending"
  /\ Cardinality(Running) < max_workers(generate_call)
  /\ futures' = [futures EXCEPT ![t].state = "running"]
  /\ UNCHANGED <<generate_call, generate_pc, results_taken>>
  /\ GenerateUnchanged

\* the task returns or raises in its worker thread
WorkerFinish(t, outcome) ==
  /\ futures[t].state = "running"
  /\ futures' = [futures EXCEPT ![t] = [state |-> "finished", outcome |-> outcome]]
  /\ UNCHANGED <<generate_call, generate_pc, results_taken>>
  /\ GenerateUnchanged

\* concurrent.futures.wait(futures)
WaitForFutures ==
  /\ generate_pc = "wait"
  /\ \A t \in Range(SubmitOrder(generate_call)) : done(t)
  /\ generate_pc' = "results"
  /\ UNCHANGED <<generate_call, futures, results_taken>>
  /\ GenerateUnchanged

NoTests(taken) == \A t \in Range(taken) \cap future_tests : futures[t].outcome # "value"

\* the next future.result() call, and the early returns that follow it
TakeResult ==
  /\ generate_pc = "results"
  /\ LET order == ResultOrder(generate_call)
         t == order[Len(results_taken) + 1]
         taken == Append(results_taken, t)
     IN /\ done(t)
        /\ IF futures[t].outcome = "exception"
             THEN /\ generate_pc' = "exit_raise"
                  /\ UNCHANGED results_taken
             ELSE /\ results_taken' = taken
                  /\ generate_pc' =
                       IF generate_call.source = "main"
                         THEN IF Len(taken) = Len(order) THEN "exit" ELSE "results"
                       ELSE IF /\ t = Future("future_optimization_candidates", 0)
                               /\ futures[t].outcome = "empty"
                         THEN "exit_failure"
                       ELSE IF future_tests \subseteq Range(taken) /\ t \in future_tests
                                 /\ NoTests(taken)
                         THEN "exit_failure"
                       ELSE IF Len(taken) = Len(order) THEN "exit" ELSE "results"
  /\ UNCHANGED <<generate_call, futures>>
  /\ GenerateUnchanged

\* the end of the with block: the executor shuts down and joins its workers;
\* main.py then looks at the result of the test generation
ExecutorExit ==
  /\ generate_pc \in {"exit", "exit_failure", "exit_raise"}
  /\ \A t \in Submitted : done(t)
  /\ generate_pc' =
       IF generate_pc = "exit_raise" THEN "raised"
       ELSE IF generate_pc = "exit_failure" THEN "failed"
       ELSE IF generate_call.source = "main"
         THEN IF futures[Future("future_tests", 0)].outcome = "value"
                THEN "baseline" ELSE "failed"
       ELSE "instrument"
  /\ UNCHANGED <<generate_call, futures, results_taken>>
  /\ GenerateUnchanged

\* optimizer.py: the generated tests are written, the existing tests and the
\* source are instrumented
Instrument ==
  /\ generate_pc = "instrument"
  /\ generate_pc' = "baseline"
  /\ UNCHANGED <<generate_call, futures, results_taken>>
  /\ GenerateUnchanged

\* the baseline run of the tests on the original code
Baseline ==
  /\ generate_pc = "baseline"
  /\ generate_pc' = "measured"
  /\ UNCHANGED <<generate_call, futures, results_taken>>
  /\ GenerateUnchanged

NextGenerate ==
  \/ Submit
  \/ \E t \in FutureNames : WorkerStart(t)
  \/ \E t \in FutureNames, outcome \in FutureOutcomes : WorkerFinish(t, outcome)
  \/ WaitForFutures
  \/ TakeResult
  \/ ExecutorExit
  \/ Instrument
  \/ Baseline

SpecGenerate == InitGenerate /\ [][NextGenerate]_vars

(***************************************************************************)
(* SpecTracer: the Tracer of tracing/tracer.py between __enter__ and       *)
(* __exit__.  The traced program calls and returns; every call and every   *)
(* return invokes Tracer.trace_callback while the profile function is set. *)
(***************************************************************************)
\* Tracer(max_function_count=...): 100 by default
max_function_count == 2

\* the deepest stack of calls of the traced program
MaxDepth == 3

\* the qualified names of the traced program: two functions of the module
\* root and one of a file that filter_files_optimized rejects
QualifiedNames == {"f", "g", "conftest"}

filter_files_optimized(name) == IF name = "conftest" THEN 0 ELSE 1

\* what serializing the locals of the frame gives: pickle succeeds, pickle
\* fails and dill succeeds, or both raise
Serializers == {"pickle", "dill", "give_up"}

\* the state the callback reads and writes
TracerState ==
  [function_count |-> function_count,
   ignored_qualified_functions |-> ignored_qualified_functions,
   function_modules |-> function_modules,
   events |-> events,
   recursion_limit |-> recursion_limit,
   profile_set |-> tracer_pc = "tracing"]

\* function_count[name] of the defaultdict(int)
count_of(counts, name) == IF name \in DOMAIN counts THEN counts[name] ELSE 0

set_count(counts, name, n) ==
  [k \in DOMAIN counts \cup {name} |-> IF k = name THEN n ELSE counts[k]]

del_count(counts, name) == [k \in DOMAIN counts \ {name} |-> counts[k]]

\* the part of trace_callback that handles a return event
trace_return(st, name) ==
  LET n == count_of(st.function_count, name) + 1
  IN IF n >= max_function_count
       THEN [st EXCEPT !.ignored_qualified_functions = @ \cup {name},
                       !.function_count = del_count(st.function_count, name)]
       ELSE [st EXCEPT !.function_count = set_count(st.function_count, name, n)]

\* the serialization of the locals and the insertion of the call event
record_call(st, name, serializer) ==
  IF serializer = "give_up"
    THEN [st EXCEPT !.recursion_limit = 10000]
    ELSE [st EXCEPT !.events = Append(@, [type |-> "call", function |-> name])]

\* the part of trace_callback that handles a call event
trace_call(st, name, serializer) ==
  IF name \notin DOMAIN st.function_count
    THEN LET seen == [st EXCEPT !.function_count = set_count(st.function_count, name, 0)]
         IN IF filter_files_optimized(name) = 0
              THEN [seen EXCEPT !.ignored_qualified_functions = @ \cup {name}]
              ELSE record_call([seen EXCEPT !.function_modules = Append(@, name)],
                               name, serializer)
    ELSE record_call(st, name, serializer)

\* Tracer.trace_callback for a call or a return event
trace_callback(st, event, name, serializer, timed_out) ==
  IF timed_out THEN [st EXCEPT !.profile_set = FALSE]
  ELSE IF name \in st.ignored_qualified_functions THEN st
  ELSE IF event = "return" THEN trace_return(st, name)
  ELSE trace_call(st, name, serializer)

InitTracer ==
  /\ tracer_pc = "tracing"
  /\ function_count = <<>>
  /\ ignored_qualified_functions = {}
  /\ function_modules = <<>>
  /\ events = <<>>
  /\ frames = <<>>
  /\ replay_functions = <<>>
  /\ InterpreterIdle
  /\ ComparatorIdle
  /\ GenerateIdle
  /\ CriticIdle
  /\ CompareIdle
  /\ OptIdle
  /\ MainIdle

TracerUnchanged ==
  UNCHANGED <<comparatorVars, generateVars, criticVars, compareVars, optVars, mainVars>>

\* the callback has run: its state is stored
Callback(st) ==
  /\ function_count' = st.function_count
  /\ ignored_qualified_functions' = st.ignored_qualified_functions
  /\ function_modules' = st.function_modules
  /\ events' = st.events
  /\ recursion_limit' = st.recursion_limit
  /\ tracer_pc' = IF st.profile_set THEN "tracing" ELSE "timed_out"

\* the traced program calls a function: a call event
Call(name, serializer, timed_out) ==
  /\ tracer_pc = "tracing"
  /\ Len(frames) < MaxDepth
  /\ frames' = Append(frames, name)
  /\ Callback(trace_callback(TracerState, "call", name, serializer, timed_out))
  /\ UNCHANGED replay_functions
  /\ TracerUnchanged

\* the innermost call of the traced program returns: a return event
Return(timed_out) ==
  /\ tracer_pc = "tracing"
  /\ frames # <<>>
  /\ frames' = SubSeq(frames, 1, Len(frames) - 1)
  /\ Callback(trace_callback(TracerState, "return", frames[Len(frames)], "pickle", timed_out))
  /\ UNCHANGED replay_functions
  /\ TracerUnchanged

\* after the timeout the profile function is unset: the program goes on to
\* the end of the traced block without the tracer
Untraced ==
  /\ tracer_pc = "timed_out"
  /\ frames # <<>>
  /\ frames' = SubSeq(frames, 1, Len(frames) - 1)
  /\ UNCHANGED <<tracer_pc, function_count, ignored_qualified_functions, function_modules,
                 events, replay_functions, recursion_limit>>
  /\ TracerUnchanged

\* Tracer.__exit__: the functions without a captured return are filtered out
\* and the rest is handed to create_trace_replay_test
Exit ==
  /\ tracer_pc \in {"tracing", "timed_out"}
  /\ frames = <<>>
  /\ replay_functions' =
       SelectSeq(function_modules, LAMBDA name : count_of(function_count, name) > 0)
  /\ tracer_pc' = "exited"
  /\ UNCHANGED <<function_count, ignored_qualified_functions, function_modules, events, frames,
                 recursion_limit>>
  /\ TracerUnchanged

NextTracer ==
  \/ \E name \in QualifiedNames, serializer \in Serializers, timed_out \in BOOLEAN :
       Call(name, serializer, timed_out)
  \/ \E timed_out \in BOOLEAN : Return(timed_out)
  \/ Untraced
  \/ Exit

SpecTracer == InitTracer /\ [][NextTracer]_vars

(***************************************************************************)
(* Spec: Optimizer.run of optimization/optimizer.py on one module file.    *)
(***************************************************************************)
\* command lines of the run: --no-pr, --all, and a PR run in GitHub Actions
Modes == {[all |-> FALSE, no_pr |-> TRUE, env_pr |-> 0],
          [all |-> TRUE, no_pr |-> FALSE, env_pr |-> 0],
          [all |-> FALSE, no_pr |-> FALSE, env_pr |-> 7]}

\* code contexts of a function: a plain function, a function with a helper
\* function in another file, a method with a helper class in another file
CodeContexts ==
  {[helper_paths |-> {}, is_method |-> FALSE, helper_class_paths |-> {}],
   [helper_paths |-> {HelperPath}, is_method |-> FALSE, helper_class_paths |-> {}],
   [helper_paths |-> {HelperPath}, is_method |-> TRUE, helper_class_paths |-> {HelperPath}]}

\* what a candidate's source replaces: the function, the function and its
\* helper function, or nothing (its definitions equal the ones on disk)
CandidateKinds(context) ==
  {[fto |-> TRUE, helper |-> FALSE], [fto |-> FALSE, helper |-> FALSE]}
    \cup (IF HelperPath \in ReadWritablePaths(context)
          THEN {[fto |-> TRUE, helper |-> TRUE]} ELSE {})

ExistingAndGenerated ==
  <<FunctionTestInvocation(1, "EXISTING_UNIT_TEST", TRUE, 0, PyInt(1), FALSE),
    FunctionTestInvocation(2, "GENERATED_REGRESSION", TRUE, 0, PyInt(1), FALSE)>>

\* behavioural results of the original code, and its total benchmark timing
BaselineBehaviors == {<<>>, ExistingAndGenerated}
BaselineTimings == {0, 1000}

\* behavioural results of a candidate: those of the baseline, the return
\* value of the last invocation changed, the pass flag of the first or of the
\* last invocation flipped, the last invocation missing, or no results at all
CandidateBehaviors(baseline) ==
  {baseline, <<>>, SubSeq(baseline, 1, Len(baseline) - 1),
   [baseline EXCEPT ![Len(baseline)].return_value = PyInt(2)],
   [baseline EXCEPT ![1].did_pass = FALSE],
   [baseline EXCEPT ![Len(baseline)].did_pass = FALSE]}

\* total benchmark timing of a candidate
Runtimes == {0, 600, 800, 850, 950}

InitOpt ==
  /\ disk = [p \in Paths |-> OriginalContent]
  /\ pc = "read_module"
  /\ exc = NoException
  /\ args \in Modes
  /\ functions_left = Functions
  /\ function_to_optimize = "none"
  /\ validated_original_code = OriginalContent
  /\ code_context = NoContext
  /\ original_helper_code = EmptyDict
  /\ candidates = 0
  /\ candidate_index = 0
  /\ candidate = NoCandidate
  /\ original_code_baseline = NoBaseline
  /\ candidate_behavior_results = <<>>
  /\ run_results = NoCandidateResult
  /\ best_optimization = NoBestOptimization
  /\ best_runtime_until_now = 0
  /\ results_log = <<>>
  /\ optimizations_found = 0
  /\ loop_entry_disk = [p \in Paths |-> OriginalContent]
  /\ test_files_on_disk = {}
  /\ CriticIdle
  /\ CompareIdle
  /\ OtherIdle
  /\ MainIdle

\* the locals of optimize_function go out of scope
LeaveFunction ==
  /\ function_to_optimize' = "none"
  /\ code_context' = NoContext
  /\ original_helper_code' = EmptyDict
  /\ candidates' = 0
  /\ candidate_index' = 0
  /\ candidate' = NoCandidate
  /\ original_code_baseline' = NoBaseline
  /\ candidate_behavior_results' = <<>>
  /\ run_results' = NoCandidateResult
  /\ best_optimization' = NoBestOptimization
  /\ best_runtime_until_now' = 0
  /\ results_log' = <<>>
  /\ loop_entry_disk' = [p \in Paths |-> OriginalContent]

\* an exception leaves the loop body: the candidates, the measurements and the
\* best optimization so far are not read again; the handlers only read the
\* original code of the function and of its helpers
DropMeasurements ==
  /\ candidates' = 0
  /\ candidate_index' = 0
  /\ candidate' = NoCandidate
  /\ original_code_baseline' = NoBaseline
  /\ candidate_behavior_results' = <<>>
  /\ run_results' = NoCandidateResult
  /\ best_optimization' = NoBestOptimization
  /\ best_runtime_until_now' = 0
  /\ results_log' = <<>>

candidateVars == <<candidate_index, candidate, candidate_behavior_results, run_results,
                   best_optimization, best_runtime_until_now, results_log, loop_entry_disk>>

\* run(): read the module file once, before the loop over its functions
ReadModule ==
  /\ pc = "read_module"
  /\ validated_original_code' = disk[ModulePath]
  /\ pc' = "function_loop"
  /\ UNCHANGED <<test_files_on_disk,
                 disk, exc, args, functions_left, function_to_optimize, code_context,
                 original_helper_code, candidates, original_code_baseline, candidateVars,
                 optimizations_found, criticVars, compareVars, otherVars, mainVars>>

\* run(): no function is left; the try block ends
FunctionLoopEnd ==
  /\ pc = "function_loop"
  /\ functions_left = <<>>
  /\ pc' = "finally"
  /\ UNCHANGED <<test_files_on_disk,
                 disk, exc, args, functions_left, function_to_optimize, validated_original_code,
                 code_context, original_helper_code, candidates, original_code_baseline,
                 candidateVars, optimizations_found, criticVars, compareVars, otherVars, mainVars>>

\* optimize_function: get_code_optimization_context fails; run() logs the
\* failure and continues with the next function
ContextFailure ==
  /\ pc = "function_loop"
  /\ functions_left # <<>>
  /\ functions_left' = Tail(functions_left)
  /\ pc' = "function_loop"
  /\ UNCHANGED <<test_files_on_disk,
                 disk, exc, args, function_to_optimize, validated_original_code, code_context,
                 original_helper_code, candidates, original_code_baseline, candidateVars,
                 optimizations_found, criticVars, compareVars, otherVars, mainVars>>

\* optimize_function: the context is extracted and the helper files are read
StartFunction ==
  /\ pc = "function_loop"
  /\ functions_left # <<>>
  /\ functions_left' = Tail(functions_left)
  /\ function_to_optimize' = Head(functions_left)
  /\ \E context \in CodeContexts :
       /\ code_context' = context
       /\ original_helper_code' = [p \in context.helper_paths |-> disk[p]]
  /\ pc' = "generate"
  /\ UNCHANGED <<test_files_on_disk,
                 disk, exc, args, validated_original_code, candidates, original_code_baseline,
                 candidateVars, optimizations_found, criticVars, compareVars, otherVars, mainVars>>

\* generate_tests_and_optimizations returns a Failure (no candidates or no tests)
GenerationFailure ==
  /\ pc = "generate"
  /\ pc' = "function_loop"
  /\ LeaveFunction
  /\ UNCHANGED <<test_files_on_disk,
                 disk, exc, args, functions_left, validated_original_code,
                 optimizations_found, criticVars, compareVars, otherVars, mainVars>>

\* generate_tests_and_optimizations returns tests and a non-empty candidate list
GenerationSuccess ==
  /\ pc = "generate"
  /\ \E n \in 1..MaxCandidates : candidates' = n
  /\ pc' = "instrument"
  /\ test_files_on_disk' = test_files_on_disk \cup {GeneratedTest(function_to_optimize)}
  /\ UNCHANGED <<disk, exc, args, functions_left, function_to_optimize, validated_original_code,
                 code_context, original_helper_code, original_code_baseline, candidateVars,
                 optimizations_found, criticVars, compareVars, otherVars, mainVars>>

\* optimize_function: instrument_existing_tests and
\* instrument_code(function_to_optimize)
InstrumentCode ==
  /\ pc = "instrument"
  /\ disk' = instrument_code(disk, code_context)
  /\ pc' = "baseline"
  /\ test_files_on_disk' = test_files_on_disk \cup {InstrumentedTest(function_to_optimize),
                                                     InstrumentedReplayTest(function_to_optimize)}
  /\ UNCHANGED <<exc, args, functions_left, function_to_optimize, validated_original_code,
                 code_context, original_helper_code, candidates, original_code_baseline,
                 candidateVars, optimizations_found, criticVars, compareVars, otherVars, mainVars>>

\* establish_original_code_baseline: Failure when there are no behavioural
\* results or the total timing is 0
EstablishBaseline ==
  /\ pc = "baseline"
  /\ \E behavioral_results \in BaselineBehaviors, total_timing \in BaselineTimings :
       original_code_baseline' =
         IF behavioral_results = <<>> \/ total_timing = 0 THEN NoBaseline
         ELSE [ok |-> TRUE, runtime |-> total_timing,
               behavioral_test_results |-> behavioral_results]
  /\ pc' = "remove_instrumentation"
  /\ UNCHANGED <<test_files_on_disk,
                 disk, exc, args, functions_left, function_to_optimize, validated_original_code,
                 code_context, original_helper_code, candidates, candidateVars,
                 optimizations_found, criticVars, compareVars, otherVars, mainVars>>

\* optimize_function: write_code_and_helpers(original_code, {}, path), then
\* return a Failure if the baseline failed or the coverage threshold is not met
RemoveInstrumentationAndFail ==
  /\ pc = "remove_instrumentation"
  /\ disk' = write_code_and_helpers(disk, validated_original_code, EmptyDict, ModulePath)
  /\ \E coverage_met \in BOOLEAN : ~original_code_baseline.ok \/ ~coverage_met
  /\ pc' = "function_loop"
  /\ LeaveFunction
  /\ test_files_on_disk' = cleanup_paths(test_files_on_disk, TestFilesOf(function_to_optimize))
  /\ UNCHANGED <<exc, args, functions_left, validated_original_code, optimizations_found,
                 criticVars, compareVars, otherVars, mainVars>>

\* optimize_function entering determine_best_candidate whether or not the
\* baseline was established
RemoveInstrumentation_ignores_failure ==
  /\ pc = "remove_instrumentation"
  /\ disk' = write_code_and_helpers(disk, validated_original_code, EmptyDict, ModulePath)
  /\ best_optimization' = NoBestOptimization
  /\ best_runtime_until_now' = original_code_baseline.runtime
  /\ candidate_index' = 0
  /\ results_log' = <<>>
  /\ loop_entry_disk' = disk'
  /\ pc' = "candidate_loop"
  /\ UNCHANGED <<test_files_on_disk,
                 exc, args, functions_left, function_to_optimize, validated_original_code,
                 code_context, original_helper_code, candidates, candidate,
                 original_code_baseline, candidate_behavior_results, run_results,
                 optimizations_found, criticVars, compareVars, otherVars, mainVars>>

\* optimize_function: write_code_and_helpers(original_code, {}, path), then
\* enter determine_best_candidate
RemoveInstrumentation ==
  /\ pc = "remove_instrumentation"
  /\ original_code_baseline.ok
  /\ disk' = write_code_and_helpers(disk, validated_original_code, EmptyDict, ModulePath)
  /\ best_optimization' = NoBestOptimization
  /\ best_runtime_until_now' = original_code_baseline.runtime
  /\ candidate_index' = 0
  /\ results_log' = <<>>
  /\ loop_entry_disk' = disk'
  /\ pc' = "candidate_loop"
  /\ UNCHANGED <<test_files_on_disk,
                 exc, args, functions_left, function_to_optimize, validated_original_code,
                 code_context, original_helper_code, candidates, candidate,
                 original_code_baseline, candidate_behavior_results, run_results,
                 optimizations_found, criticVars, compareVars, otherVars, mainVars>>

SkippedEntry == [status |-> "skipped", runtime |-> 0, quantity |-> FALSE]
IncorrectEntry == [status |-> "incorrect", runtime |-> 0, quantity |-> FALSE]

\* determine_best_candidate leaving the loop as soon as a best optimization exists
CandidateLoopEnd_short_circuit ==
  /\ pc = "candidate_loop"
  /\ candidate_index = candidates \/ best_optimization # NoBestOptimization
  /\ pc' = "loop_done"
  /\ UNCHANGED <<test_files_on_disk,
                 disk, exc, args, functions_left, function_to_optimize, validated_original_code,
                 code_context, original_helper_code, candidates, original_code_baseline,
                 candidateVars, optimizations_found, criticVars, compareVars, otherVars, mainVars>>

\* determine_best_candidate: the for loop has no candidate left; log_results
\* and return best_optimization
CandidateLoopEnd ==
  /\ pc = "candidate_loop"
  /\ candidate_index = candidates
  /\ pc' = "loop_done"
  /\ UNCHANGED <<test_files_on_disk,
                 disk, exc, args, functions_left, function_to_optimize, validated_original_code,
                 code_context, original_helper_code, candidates, original_code_baseline,
                 candidateVars, optimizations_found, criticVars, compareVars, otherVars, mainVars>>

\* determine_best_candidate: replace_function_and_helpers_with_optimized_code
\* for the next candidate; when nothing was replaced the candidate is skipped
ReplaceCandidate ==
  /\ pc = "candidate_loop"
  /\ candidate_index < candidates
  /\ candidate_index' = candidate_index + 1
  /\ \E kind \in CandidateKinds(code_context) :
       LET cand == [id |-> CandidateId(function_to_optimize, candidate_index + 1),
                    fto |-> kind.fto, helper |-> kind.helper]
       IN  /\ disk' = replace_function_and_helpers_with_optimized_code(
                        disk, code_context, function_to_optimize, cand)
           /\ IF did_update(disk, code_context, function_to_optimize, cand)
              THEN /\ candidate' = cand
                   /\ pc' = "run_behavior"
                   /\ UNCHANGED results_log
              ELSE /\ candidate' = NoCandidate
                   /\ pc' = "candidate_loop"
                   /\ results_log' = Append(results_log, SkippedEntry)
  /\ UNCHANGED <<test_files_on_disk,
                 exc, args, functions_left, function_to_optimize, validated_original_code,
                 code_context, original_helper_code, candidates, original_code_baseline,
                 candidate_behavior_results, run_results, best_optimization,
                 best_runtime_until_now, optimizations_found, loop_entry_disk, criticVars, compareVars, otherVars, mainVars>>

\* determine_best_candidate: the replacement raises ValueError, SyntaxError,
\* ParserSyntaxError or AttributeError (possibly after some of the files were
\* rewritten); the handler writes the original code back and continues
ReplaceCandidateError ==
  /\ pc = "candidate_loop"
  /\ candidate_index < candidates
  /\ candidate_index' = candidate_index + 1
  /\ disk' = write_code_and_helpers(disk, validated_original_code, original_helper_code, ModulePath)
  /\ results_log' = Append(results_log, SkippedEntry)
  /\ pc' = "candidate_loop"
  /\ UNCHANGED <<test_files_on_disk,
                 exc, args, functions_left, function_to_optimize, validated_original_code,
                 code_context, original_helper_code, candidates, candidate,
                 original_code_baseline, candidate_behavior_results, run_results,
                 best_optimization, best_runtime_until_now, optimizations_found, loop_entry_disk, criticVars, compareVars, otherVars, mainVars>>

\* run_optimized_candidate: run the behavioural tests and compare them with
\* the baseline; a mismatch is a Failure and the candidate is not benchmarked
RunBehavior ==
  /\ pc = "run_behavior"
  /\ \E results \in CandidateBehaviors(original_code_baseline.behavioral_test_results) :
       /\ candidate_behavior_results' = results
       /\ IF compare_test_results(original_code_baseline.behavioral_test_results, results)
          THEN /\ pc' = "run_benchmark"
               /\ UNCHANGED results_log
          ELSE /\ pc' = "restore"
               /\ results_log' = Append(results_log, IncorrectEntry)
  /\ UNCHANGED <<test_files_on_disk,
                 disk, exc, args, functions_left, function_to_optimize, validated_original_code,
                 code_context, original_helper_code, candidates, candidate_index, candidate,
                 original_code_baseline, run_results, best_optimization,
                 best_runtime_until_now, optimizations_found, loop_entry_disk, criticVars, compareVars, otherVars, mainVars>>

\* run_optimized_candidate: run the benchmarking tests; the result is a
\* Success even when the total timing is 0
RunBenchmark ==
  /\ pc = "run_benchmark"
  /\ \E total_candidate_timing \in Runtimes :
       run_results' = [best_test_runtime |-> total_candidate_timing,
                       best_test_results |-> candidate_behavior_results]
  /\ pc' = "critic"
  /\ UNCHANGED <<test_files_on_disk,
                 disk, exc, args, functions_left, function_to_optimize, validated_original_code,
                 code_context, original_helper_code, candidates, candidate_index, candidate,
                 original_code_baseline, candidate_behavior_results, best_optimization,
                 best_runtime_until_now, results_log, optimizations_found, loop_entry_disk, criticVars, compareVars, otherVars, mainVars>>

\* determine_best_candidate: performance_gain divides by a runtime of 0; the
\* ZeroDivisionError is not caught and leaves determine_best_candidate,
\* optimize_function and the try block of run()
CriticRaises ==
  /\ pc = "critic"
  /\ performance_gain_raises(original_code_baseline.runtime, run_results.best_test_runtime)
  /\ exc' = [type |-> "ZeroDivisionError", raised_at |-> pc]
  /\ pc' = "finally"
  /\ DropMeasurements
  /\ UNCHANGED <<test_files_on_disk,
                 disk, args, functions_left, function_to_optimize, validated_original_code,
                 code_context, original_helper_code, loop_entry_disk, optimizations_found,
                 criticVars, compareVars, otherVars, mainVars>>

\* determine_best_candidate: the candidate becomes the best optimization when
\* speedup_critic and quantity_of_tests_critic accept it
Critic ==
  /\ pc = "critic"
  /\ ~performance_gain_raises(original_code_baseline.runtime, run_results.best_test_runtime)
  /\ LET accepted ==
           /\ speedup_critic(run_results, original_code_baseline.runtime,
                             best_runtime_until_now, args.env_pr)
           /\ quantity_of_tests_critic(run_results, args.env_pr)
     IN  /\ best_optimization' =
              IF accepted
              THEN [candidate |-> candidate, runtime |-> run_results.best_test_runtime,
                    winning_behavioral_test_results |-> run_results.best_test_results]
              ELSE best_optimization
         /\ best_runtime_until_now' =
              IF accepted THEN run_results.best_test_runtime ELSE best_runtime_until_now
  /\ results_log' = Append(results_log,
                           [status |-> "correct", runtime |-> run_results.best_test_runtime,
                            quantity |-> quantity_of_tests_critic(run_results, args.env_pr)])
  /\ pc' = "restore"
  /\ UNCHANGED <<test_files_on_disk,
                 disk, exc, args, functions_left, function_to_optimize, validated_original_code,
                 code_context, original_helper_code, candidates, candidate_index, candidate,
                 original_code_baseline, candidate_behavior_results, run_results,
                 optimizations_found, loop_entry_disk, criticVars, compareVars, otherVars, mainVars>>

\* determine_best_candidate: write_code_and_helpers at the end of the loop body
RestoreOriginal ==
  /\ pc = "restore"
  /\ disk' = write_code_and_helpers(disk, validated_original_code, original_helper_code, ModulePath)
  /\ candidate' = NoCandidate
  /\ candidate_behavior_results' = <<>>
  /\ run_results' = NoCandidateResult
  /\ pc' = "candidate_loop"
  /\ UNCHANGED <<test_files_on_disk,
                 exc, args, functions_left, function_to_optimize, validated_original_code,
                 code_context, original_helper_code, candidates, candidate_index,
                 original_code_baseline, best_optimization, best_runtime_until_now,
                 results_log, optimizations_found, loop_entry_disk, criticVars, compareVars, otherVars, mainVars>>

InsideCandidateTry == {"candidate_loop", "run_behavior", "run_benchmark", "critic", "restore"}

OutsideCandidateTry == {"generate", "instrument", "baseline", "remove_instrumentation",
                        "loop_done", "create_pr", "cleanup"}

\* a KeyboardInterrupt arrives inside the try block of determine_best_candidate
KeyboardInterruptInLoop ==
  /\ pc \in InsideCandidateTry
  /\ pc' = "except_KeyboardInterrupt"
  /\ DropMeasurements
  /\ UNCHANGED <<test_files_on_disk,
                 disk, exc, args, functions_left, function_to_optimize, validated_original_code,
                 code_context, original_helper_code, loop_entry_disk, optimizations_found,
                 criticVars, compareVars, otherVars, mainVars>>

\* a KeyboardInterrupt arrives while the candidate is being written: the file
\* of the function is rewritten, the helper file not yet
KeyboardInterruptDuringReplace ==
  /\ pc = "candidate_loop"
  /\ candidate_index < candidates
  /\ LET cand == [id |-> CandidateId(function_to_optimize, candidate_index + 1),
                  fto |-> TRUE, helper |-> TRUE]
     IN  disk' = [disk EXCEPT ![ModulePath] =
                    ReplacedModule(disk[ModulePath], function_to_optimize, cand, ModulePath)]
  /\ pc' = "except_KeyboardInterrupt"
  /\ DropMeasurements
  /\ UNCHANGED <<test_files_on_disk,
                 exc, args, functions_left, function_to_optimize, validated_original_code,
                 code_context, original_helper_code, loop_entry_disk, optimizations_found,
                 criticVars, compareVars, otherVars, mainVars>>

\* determine_best_candidate: except KeyboardInterrupt: write the original
\* code back and re-raise
ExceptKeyboardInterrupt ==
  /\ pc = "except_KeyboardInterrupt"
  /\ disk' = write_code_and_helpers(disk, validated_original_code, original_helper_code, ModulePath)
  /\ exc' = [type |-> "KeyboardInterrupt", raised_at |-> "candidate_loop"]
  /\ pc' = "finally"
  /\ UNCHANGED <<test_files_on_disk,
                 args, functions_left, function_to_optimize, validated_original_code,
                 code_context, original_helper_code, candidates, original_code_baseline,
                 candidateVars, optimizations_found, criticVars, compareVars, otherVars, mainVars>>

\* a KeyboardInterrupt arrives in optimize_function outside the try block of
\* determine_best_candidate: it propagates to the finally clause of run()
KeyboardInterruptOutsideLoop ==
  /\ pc \in OutsideCandidateTry
  /\ exc' = [type |-> "KeyboardInterrupt", raised_at |-> pc]
  /\ pc' = "finally"
  /\ DropMeasurements
  /\ UNCHANGED <<test_files_on_disk,
                 disk, args, functions_left, function_to_optimize, validated_original_code,
                 code_context, original_helper_code, loop_entry_disk, optimizations_found,
                 criticVars, compareVars, otherVars, mainVars>>

\* optimize_function: no best optimization was found
NoBestOptimizationFound ==
  /\ pc = "loop_done"
  /\ best_optimization = NoBestOptimization
  /\ pc' = "cleanup"
  /\ UNCHANGED <<test_files_on_disk,
                 disk, exc, args, functions_left, function_to_optimize, validated_original_code,
                 code_context, original_helper_code, candidates, original_code_baseline,
                 candidateVars, optimizations_found, criticVars, compareVars, otherVars, mainVars>>

\* optimize_function: the best candidate is written to the source files
WriteBestOptimization ==
  /\ pc = "loop_done"
  /\ best_optimization # NoBestOptimization
  /\ disk' = replace_function_and_helpers_with_optimized_code(
               disk, code_context, function_to_optimize, best_optimization.candidate)
  /\ pc' = "create_pr"
  /\ UNCHANGED <<test_files_on_disk,
                 exc, args, functions_left, function_to_optimize, validated_original_code,
                 code_context, original_helper_code, candidates, original_code_baseline,
                 candidateVars, optimizations_found, criticVars, compareVars, otherVars, mainVars>>

\* optimize_function: unless --no-pr, create the PR and, with --all or in PR
\* mode, write the original code back
CreatePr ==
  /\ pc = "create_pr"
  /\ disk' = IF ~args.no_pr /\ (args.all \/ get_pr_number(args.env_pr) # 0)
             THEN write_code_and_helpers(disk, validated_original_code, original_helper_code,
                                         ModulePath)
             ELSE disk
  /\ pc' = "cleanup"
  /\ UNCHANGED <<test_files_on_disk,
                 exc, args, functions_left, function_to_optimize, validated_original_code,
                 code_context, original_helper_code, candidates, original_code_baseline,
                 candidateVars, optimizations_found, criticVars, compareVars, otherVars, mainVars>>

\* optimize_function: delete the test files and return; run() counts the
\* optimization and continues with the next function
Cleanup ==
  /\ pc = "cleanup"
  /\ optimizations_found' = optimizations_found
                              + (IF best_optimization # NoBestOptimization THEN 1 ELSE 0)
  /\ pc' = "function_loop"
  /\ LeaveFunction
  /\ test_files_on_disk' = test_files_on_disk \ TestFilesOf(function_to_optimize)
  /\ UNCHANGED <<disk, exc, args, functions_left, validated_original_code, criticVars, compareVars, otherVars, mainVars>>

\* run(): the finally clause; afterwards the run has returned ("done") or the
\* exception has left it ("raised")
Finally ==
  /\ pc = "finally"
  /\ pc' = IF exc = NoException THEN "done" ELSE "raised"
  /\ test_files_on_disk' = test_files_on_disk \ UnlinkedByFinally(function_to_optimize)
  /\ UNCHANGED <<disk, exc, args, functions_left, function_to_optimize, validated_original_code,
                 code_context, original_helper_code, candidates, original_code_baseline,
                 candidateVars, optimizations_found, criticVars, compareVars, otherVars, mainVars>>

Next ==
  \/ ReadModule \/ FunctionLoopEnd \/ ContextFailure \/ StartFunction
  \/ GenerationFailure \/ GenerationSuccess \/ InstrumentCode \/ EstablishBaseline
  \/ RemoveInstrumentationAndFail \/ RemoveInstrumentation
  \/ CandidateLoopEnd \/ ReplaceCandidate \/ ReplaceCandidateError
  \/ RunBehavior \/ RunBenchmark \/ CriticRaises \/ Critic \/ RestoreOriginal
  \/ KeyboardInterruptInLoop \/ KeyboardInterruptDuringReplace \/ ExceptKeyboardInterrupt
  \/ KeyboardInterruptOutsideLoop
  \/ NoBestOptimizationFound \/ WriteBestOptimization \/ CreatePr \/ Cleanup \/ Finally

Spec == InitOpt /\ [][Next]_vars

(***************************************************************************)
(* SpecMain: Optimizer.run of main.py on one module file.                  *)
(***************************************************************************)
\* config_consts: most measurement runs of the original code and of a
\* candidate (a bound of the model: the loops are checked for this many runs)
MAX_TEST_RUN_ITERATIONS == 2
\* config_consts: the ceiling of the cumulative test time
MAX_FUNCTION_TEST_SECONDS == 60

\* command lines of the run: without and with --all
MainModes == {[all |-> FALSE, env_pr |-> 0, minimum_performance_gain |-> <<5, 100>>],
              [all |-> TRUE, env_pr |-> 0, minimum_performance_gain |-> <<5, 100>>]}

\* what one run of the instrumented existing tests can return: the test
\* passes and is timed, or it fails
ExistingRuns ==
  {<<FunctionTestInvocation(1, "EXISTING_UNIT_TEST", TRUE, 100, PyInt(1), FALSE)>>,
   <<FunctionTestInvocation(1, "EXISTING_UNIT_TEST", FALSE, 0, PyInt(1), FALSE)>>}

\* what one run of the generated tests can return for the original code
BaselineGeneratedTimes == {0, 1000, 1200}
BaselineGeneratedRuns ==
  {<<>>} \cup {<<FunctionTestInvocation(2, "GENERATED_REGRESSION", TRUE, t, PyInt(1), FALSE)>> :
                 t \in BaselineGeneratedTimes}

\* what one run of the generated tests can return for a candidate: no
\* results, the return value of the original (1) timed or with runtime 0, or
\* another return value (2)
CandidateGeneratedRuns ==
  {<<>>,
   <<FunctionTestInvocation(2, "GENERATED_REGRESSION", TRUE, 600, PyInt(1), FALSE)>>,
   <<FunctionTestInvocation(2, "GENERATED_REGRESSION", TRUE, 0, PyInt(1), FALSE)>>,
   <<FunctionTestInvocation(2, "GENERATED_REGRESSION", TRUE, 600, PyInt(2), FALSE)>>}

\* the seconds one run of the existing and the generated tests can take
TestRunSeconds == {70}

\* min(all_test_times)
RECURSIVE Min(_)
Min(seq) ==
  IF Len(seq) = 1 THEN seq[1]
  ELSE LET m == Min(Tail(seq)) IN IF seq[1] <= m THEN seq[1] ELSE m

InitMain ==
  /\ disk = [p \in Paths |-> OriginalContent]
  /\ pc = "m_read_file"
  /\ exc = NoException
  /\ args \in MainModes
  /\ functions_left = Functions
  /\ function_to_optimize = "none"
  /\ validated_original_code = OriginalContent
  /\ code_context = NoContext
  /\ original_helper_code = EmptyDict
  /\ candidates = 0
  /\ candidate_index = 0
  /\ candidate = NoCandidate
  /\ original_code_baseline = NoBaseline
  /\ candidate_behavior_results = <<>>
  /\ run_results = NoCandidateResult
  /\ best_optimization = NoBestOptimization
  /\ best_runtime_until_now = 0
  /\ results_log = <<>>
  /\ optimizations_found = 0
  /\ loop_entry_disk = [p \in Paths |-> OriginalContent]
  /\ test_files_on_disk = {}
  /\ CriticIdle
  /\ CompareIdle
  /\ OtherIdle
  /\ MainIdle

\* the variables of optimization/optimizer.py that main.py does not have
optOnlyVars == <<validated_original_code, code_context, original_helper_code,
                 original_code_baseline, candidate_behavior_results, run_results,
                 best_runtime_until_now, results_log, optimizations_found>>

\* the per-function variables are reset before the next function
MainLeaveFunction ==
  /\ function_to_optimize' = "none"
  /\ candidates' = 0
  /\ candidate_index' = 0
  /\ candidate' = NoCandidate
  /\ best_optimization' = NoBestOptimization
  /\ loop_entry_disk' = [p \in Paths |-> OriginalContent]
  /\ baseline_index' = 0
  /\ original_runtime' = 0
  /\ best_runtime' = 0
  /\ times_run' = 0
  /\ overall_original_test_results' = <<>>
  /\ original_gen_results' = <<>>
  /\ baseline_loops' = <<>>
  /\ test_index' = 0
  /\ equal_results' = TRUE
  /\ all_test_times' = <<>>
  /\ optimized_test_results_iter' = <<>>
  /\ gen_test_results' = <<>>
  /\ winning_test_results' = <<>>
  /\ elapsed_test_seconds' = 0

mainLoopVars == <<test_index, equal_results, all_test_times, optimized_test_results_iter,
                  gen_test_results>>
mainBaselineVars == <<baseline_index, original_runtime, overall_original_test_results,
                      original_gen_results, baseline_loops>>

\* run(): read the file once, before the loop over its functions
MainReadFile ==
  /\ pc = "m_read_file"
  /\ original_code' = disk[ModulePath]
  /\ pc' = "m_function_loop"
  /\ UNCHANGED <<elapsed_test_seconds, test_files_on_disk, test_files_to_preserve,
                 disk, exc, args, functions_left, function_to_optimize, candidates,
                 candidate_index, candidate, best_optimization, loop_entry_disk,
                 instrumented_unittests_created, best_runtime, times_run,
                 generated_tests_elapsed_time, mainBaselineVars, mainLoopVars,
                 winning_test_results, optOnlyVars, criticVars, compareVars, otherVars>>

\* run(): no function is left; the try block ends
MainFunctionLoopEnd ==
  /\ pc = "m_function_loop"
  /\ functions_left = <<>>
  /\ pc' = "m_finally"
  /\ UNCHANGED <<elapsed_test_seconds, test_files_on_disk, test_files_to_preserve,
                 disk, exc, args, functions_left, function_to_optimize, candidates,
                 candidate_index, candidate, best_optimization, loop_entry_disk, original_code,
                 instrumented_unittests_created, best_runtime, times_run,
                 generated_tests_elapsed_time, mainBaselineVars, mainLoopVars,
                 winning_test_results, optOnlyVars, criticVars, compareVars, otherVars>>

\* run(): get_code finds no function (before the existing tests are
\* instrumented) or no tests are generated (after it): continue
MainSkipFunction ==
  /\ pc = "m_function_loop"
  /\ functions_left # <<>>
  /\ functions_left' = Tail(functions_left)
  /\ \E instrumented \in SUBSET {Head(functions_left)} :
       /\ instrumented_unittests_created' = instrumented_unittests_created \cup instrumented
       /\ test_files_on_disk' = test_files_on_disk
                                  \cup {InstrumentedTest(fn) : fn \in instrumented}
  /\ pc' = "m_function_loop"
  /\ UNCHANGED <<elapsed_test_seconds, test_files_to_preserve,
                 disk, exc, args, function_to_optimize, candidates, candidate_index, candidate,
                 best_optimization, loop_entry_disk, original_code, best_runtime, times_run,
                 generated_tests_elapsed_time, mainBaselineVars, mainLoopVars,
                 winning_test_results, optOnlyVars, criticVars, compareVars, otherVars>>

\* run(): the existing tests of the function are instrumented, tests and
\* candidates are generated, the generated tests are written
MainStartFunction ==
  /\ pc = "m_function_loop"
  /\ functions_left # <<>>
  /\ functions_left' = Tail(functions_left)
  /\ function_to_optimize' = Head(functions_left)
  /\ \E instrumented \in SUBSET {Head(functions_left)} :
       /\ instrumented_unittests_created' = instrumented_unittests_created \cup instrumented
       /\ test_files_on_disk' = test_files_on_disk
                                  \cup {InstrumentedTest(fn) : fn \in instrumented}
                                  \cup {GeneratedTest(Head(functions_left))}
  /\ \E n \in 0..MaxCandidates : candidates' = n
  /\ original_runtime' = 0
  /\ times_run' = 0
  /\ generated_tests_elapsed_time' = 0
  /\ baseline_index' = 0
  /\ baseline_loops' = <<>>
  /\ elapsed_test_seconds' = 0
  /\ pc' = "m_baseline"
  /\ UNCHANGED <<test_files_to_preserve,
                 disk, exc, args, candidate_index, candidate, best_optimization,
                 loop_entry_disk, original_code, best_runtime, overall_original_test_results,
                 original_gen_results, mainLoopVars, winning_test_results, optOnlyVars,
                 criticVars, compareVars, otherVars>>

\* the loop over the runs of the original code keeping the runtime and the
\* results of the last timed run instead of those of the fastest one
MainBaselineIteration_keeps_last ==
  /\ pc = "m_baseline"
  /\ baseline_index < MAX_TEST_RUN_ITERATIONS
  /\ ~(generated_tests_elapsed_time > MAX_FUNCTION_TEST_SECONDS)
  /\ \E seconds \in TestRunSeconds : elapsed_test_seconds' = elapsed_test_seconds + seconds
  /\ \E existing \in (IF instrumented_unittests_created = {} THEN {<<>>} ELSE ExistingRuns),
        generated \in BaselineGeneratedRuns :
       LET original_total_runtime_iter ==
             total_passed_runtime(generated) + total_passed_runtime(existing)
       IN  /\ original_gen_results' = generated
           /\ baseline_loops' = Append(baseline_loops, existing \o generated)
           /\ IF generated = <<>> /\ instrumented_unittests_created = {}
              THEN /\ pc' = "m_baseline_done"
                   /\ UNCHANGED <<baseline_index, original_runtime, best_runtime,
                                  overall_original_test_results, times_run>>
              ELSE IF original_total_runtime_iter = 0
              THEN /\ pc' = "m_baseline"
                   /\ baseline_index' = baseline_index + 1
                   /\ UNCHANGED <<original_runtime, best_runtime,
                                  overall_original_test_results, times_run>>
              ELSE /\ pc' = "m_baseline"
                   /\ baseline_index' = baseline_index + 1
                   /\ times_run' = times_run + 1
                   /\ IF TRUE
                      THEN /\ original_runtime' = original_total_runtime_iter
                           /\ best_runtime' = original_total_runtime_iter
                           /\ overall_original_test_results' = existing \o generated
                      ELSE UNCHANGED <<original_runtime, best_runtime,
                                       overall_original_test_results>>
  /\ UNCHANGED <<test_files_on_disk, test_files_to_preserve,
                 disk, exc, args, functions_left, function_to_optimize, candidates,
                 candidate_index, candidate, best_optimization, loop_entry_disk, original_code,
                 instrumented_unittests_created, generated_tests_elapsed_time, mainLoopVars,
                 winning_test_results, optOnlyVars, criticVars, compareVars, otherVars>>

\* run(): one run of the tests on the original code (the body of the loop
\* over range(MAX_TEST_RUN_ITERATIONS))
MainBaselineIteration ==
  /\ pc = "m_baseline"
  /\ baseline_index < MAX_TEST_RUN_ITERATIONS
  /\ ~(generated_tests_elapsed_time > MAX_FUNCTION_TEST_SECONDS)
  /\ \E seconds \in TestRunSeconds : elapsed_test_seconds' = elapsed_test_seconds + seconds
  /\ \E existing \in (IF instrumented_unittests_created = {} THEN {<<>>} ELSE ExistingRuns),
        generated \in BaselineGeneratedRuns :
       LET original_total_runtime_iter ==
             total_passed_runtime(generated) + total_passed_runtime(existing)
       IN  /\ original_gen_results' = generated
           /\ baseline_loops' = Append(baseline_loops, existing \o generated)
           /\ IF generated = <<>> /\ instrumented_unittests_created = {}
              THEN /\ pc' = "m_baseline_done"
                   /\ UNCHANGED <<baseline_index, original_runtime, best_runtime,
                                  overall_original_test_results, times_run>>
              ELSE IF original_total_runtime_iter = 0
              THEN /\ pc' = "m_baseline"
                   /\ baseline_index' = baseline_index + 1
                   /\ UNCHANGED <<original_runtime, best_runtime,
                                  overall_original_test_results, times_run>>
              ELSE /\ pc' = "m_baseline"
                   /\ baseline_index' = baseline_index + 1
                   /\ times_run' = times_run + 1
                   /\ IF original_runtime = 0 \/ original_total_runtime_iter < original_runtime
                      THEN /\ original_runtime' = original_total_runtime_iter
                           /\ best_runtime' = original_total_runtime_iter
                           /\ overall_original_test_results' = existing \o generated
                      ELSE UNCHANGED <<original_runtime, best_runtime,
                                       overall_original_test_results>>
  /\ UNCHANGED <<test_files_on_disk, test_files_to_preserve,
                 disk, exc, args, functions_left, function_to_optimize, candidates,
                 candidate_index, candidate, best_optimization, loop_entry_disk, original_code,
                 instrumented_unittests_created, generated_tests_elapsed_time, mainLoopVars,
                 winning_test_results, optOnlyVars, criticVars, compareVars, otherVars>>

\* run(): the loop over the runs of the original code ends
MainBaselineLoopEnd ==
  /\ pc = "m_baseline"
  /\ \/ baseline_index = MAX_TEST_RUN_ITERATIONS
     \/ generated_tests_elapsed_time > MAX_FUNCTION_TEST_SECONDS
  /\ pc' = "m_baseline_done"
  /\ UNCHANGED <<elapsed_test_seconds, test_files_on_disk, test_files_to_preserve,
                 disk, exc, args, functions_left, function_to_optimize, candidates,
                 candidate_index, candidate, best_optimization, loop_entry_disk, original_code,
                 instrumented_unittests_created, best_runtime, times_run,
                 generated_tests_elapsed_time, mainBaselineVars, mainLoopVars,
                 winning_test_results, optOnlyVars, criticVars, compareVars, otherVars>>

\* run(): times_run == 0: the function is skipped
MainBaselineFailed ==
  /\ pc = "m_baseline_done"
  /\ times_run = 0
  /\ pc' = "m_function_loop"
  /\ MainLeaveFunction
  /\ UNCHANGED <<test_files_on_disk, test_files_to_preserve,
                 disk, exc, args, functions_left, original_code,
                 instrumented_unittests_created, generated_tests_elapsed_time, optOnlyVars,
                 criticVars, compareVars, otherVars>>

\* run(): best_optimization = []; the loop over the candidates begins
MainBaselineEstablished ==
  /\ pc = "m_baseline_done"
  /\ times_run > 0
  /\ best_optimization' = NoBestOptimization
  /\ candidate_index' = 0
  /\ loop_entry_disk' = disk
  /\ baseline_loops' = <<>>
  /\ elapsed_test_seconds' = 0
  /\ pc' = "m_candidate_loop"
  /\ UNCHANGED <<test_files_on_disk, test_files_to_preserve,
                 disk, exc, args, functions_left, function_to_optimize, candidates, candidate,
                 original_code, instrumented_unittests_created, best_runtime, times_run,
                 generated_tests_elapsed_time, baseline_index, original_runtime,
                 overall_original_test_results, original_gen_results, mainLoopVars,
                 winning_test_results, optOnlyVars, criticVars, compareVars, otherVars>>

\* run(): the loop over the candidates has no candidate left
MainCandidateLoopEnd ==
  /\ pc = "m_candidate_loop"
  /\ candidate_index = candidates
  /\ pc' = "m_loop_done"
  /\ UNCHANGED <<elapsed_test_seconds, test_files_on_disk, test_files_to_preserve,
                 disk, exc, args, functions_left, function_to_optimize, candidates,
                 candidate_index, candidate, best_optimization, loop_entry_disk, original_code,
                 instrumented_unittests_created, best_runtime, times_run,
                 generated_tests_elapsed_time, mainBaselineVars, mainLoopVars,
                 winning_test_results, optOnlyVars, criticVars, compareVars, otherVars>>

\* run(): optimized_code is None, or replace_function_in_file raises
\* ValueError, SyntaxError, ParserSyntaxError or AttributeError: continue
MainSkipCandidate ==
  /\ pc = "m_candidate_loop"
  /\ candidate_index < candidates
  /\ candidate_index' = candidate_index + 1
  /\ pc' = "m_candidate_loop"
  /\ UNCHANGED <<elapsed_test_seconds, test_files_on_disk, test_files_to_preserve,
                 disk, exc, args, functions_left, function_to_optimize, candidates, candidate,
                 best_optimization, loop_entry_disk, original_code,
                 instrumented_unittests_created, best_runtime, times_run,
                 generated_tests_elapsed_time, mainBaselineVars, mainLoopVars,
                 winning_test_results, optOnlyVars, criticVars, compareVars, otherVars>>

\* run(): replace_function_in_file on the file as it is on disk; the new
\* code is written to the file
MainWriteCandidate ==
  /\ pc = "m_candidate_loop"
  /\ candidate_index < candidates
  /\ candidate_index' = candidate_index + 1
  /\ LET cand == [id |-> CandidateId(function_to_optimize, candidate_index + 1),
                  fto |-> TRUE, helper |-> FALSE]
     IN  /\ candidate' = cand
         /\ disk' = [disk EXCEPT ![ModulePath] =
                       ReplacedModule(disk[ModulePath], function_to_optimize, cand, ModulePath)]
  /\ all_test_times' = <<>>
  /\ equal_results' = TRUE
  /\ generated_tests_elapsed_time' = 0
  /\ times_run' = 0
  /\ test_index' = 0
  /\ elapsed_test_seconds' = 0
  /\ pc' = "m_candidate_tests"
  /\ UNCHANGED <<test_files_on_disk, test_files_to_preserve,
                 exc, args, functions_left, function_to_optimize, candidates,
                 best_optimization, loop_entry_disk, original_code,
                 instrumented_unittests_created, best_runtime, mainBaselineVars,
                 optimized_test_results_iter, gen_test_results, winning_test_results,
                 optOnlyVars, criticVars, compareVars, otherVars>>

\* run(): the check of the existing-test results of the first run of a
\* candidate against overall_original_test_results
ExistingResultsMatch(existing) ==
  \A k \in DOMAIN existing :
     LET original == get_by_unique_invocation_loop_id(overall_original_test_results,
                                                      existing[k].id)
     IN  original # NoInvocation /\ existing[k].did_pass = original.did_pass

\* run(): one run of the tests on a candidate (the body of the loop over
\* test_index)
MainCandidateIteration ==
  /\ pc = "m_candidate_tests"
  /\ test_index < MAX_TEST_RUN_ITERATIONS
  /\ ~(generated_tests_elapsed_time > MAX_FUNCTION_TEST_SECONDS)
  /\ \E seconds \in TestRunSeconds : elapsed_test_seconds' = elapsed_test_seconds + seconds
  /\ \E existing \in (IF instrumented_unittests_created = {} THEN {<<>>} ELSE ExistingRuns),
        generated \in CandidateGeneratedRuns :
       LET test_runtime == total_passed_runtime(generated) + total_passed_runtime(existing)
           equal_after_generated ==
             IF test_index # 0 THEN equal_results
             ELSE IF generated # <<>> THEN compare_test_results(original_gen_results, generated)
             ELSE TRUE
       IN  IF test_index = 0 /\ ~ExistingResultsMatch(existing)
           THEN /\ equal_results' = FALSE
                /\ optimized_test_results_iter' = existing
                /\ pc' = "m_candidate_done"
                /\ UNCHANGED <<gen_test_results, all_test_times, times_run, test_index>>
           ELSE /\ gen_test_results' = generated
                /\ equal_results' = equal_after_generated
                /\ IF ~equal_after_generated
                   THEN /\ optimized_test_results_iter' = existing
                        /\ pc' = "m_candidate_done"
                        /\ UNCHANGED <<all_test_times, times_run, test_index>>
                   ELSE IF test_runtime = 0
                   THEN /\ optimized_test_results_iter' = existing
                        /\ test_index' = test_index + 1
                        /\ pc' = "m_candidate_tests"
                        /\ UNCHANGED <<all_test_times, times_run>>
                   ELSE /\ all_test_times' = Append(all_test_times, test_runtime)
                        /\ optimized_test_results_iter' = existing \o generated
                        /\ times_run' = times_run + 1
                        /\ test_index' = test_index + 1
                        /\ pc' = "m_candidate_tests"
  /\ UNCHANGED <<test_files_on_disk, test_files_to_preserve,
                 disk, exc, args, functions_left, function_to_optimize, candidates,
                 candidate_index, candidate, best_optimization, loop_entry_disk, original_code,
                 instrumented_unittests_created, best_runtime, generated_tests_elapsed_time,
                 mainBaselineVars, winning_test_results, optOnlyVars, criticVars, compareVars, otherVars>>

\* run(): the loop over the runs of a candidate ends
MainCandidateTestsEnd ==
  /\ pc = "m_candidate_tests"
  /\ \/ test_index = MAX_TEST_RUN_ITERATIONS
     \/ generated_tests_elapsed_time > MAX_FUNCTION_TEST_SECONDS
  /\ pc' = "m_candidate_done"
  /\ UNCHANGED <<elapsed_test_seconds, test_files_on_disk, test_files_to_preserve,
                 disk, exc, args, functions_left, function_to_optimize, candidates,
                 candidate_index, candidate, best_optimization, loop_entry_disk, original_code,
                 instrumented_unittests_created, best_runtime, times_run,
                 generated_tests_elapsed_time, mainBaselineVars, mainLoopVars,
                 winning_test_results, optOnlyVars, criticVars, compareVars, otherVars>>

\* run(): the candidate becomes the best optimization when its results are
\* equal, it was timed, its gain exceeds minimum_performance_gain and its
\* runtime is below best_runtime
MainCritic ==
  /\ pc = "m_candidate_done"
  /\ LET new_test_time == IF all_test_times = <<>> THEN 0 ELSE Min(all_test_times)
         accepted ==
           /\ equal_results
           /\ times_run > 0
           /\ FracGT(performance_gain(original_runtime, new_test_time),
                     args.minimum_performance_gain)
           /\ new_test_time < best_runtime
     IN  IF accepted
         THEN /\ best_optimization' = [candidate |-> candidate, runtime |-> new_test_time,
                                       winning_behavioral_test_results |-> <<>>]
              /\ best_runtime' = new_test_time
              /\ winning_test_results' = optimized_test_results_iter
         ELSE UNCHANGED <<best_optimization, best_runtime, winning_test_results>>
  /\ pc' = "m_restore"
  /\ UNCHANGED <<elapsed_test_seconds, test_files_on_disk, test_files_to_preserve,
                 disk, exc, args, functions_left, function_to_optimize, candidates,
                 candidate_index, candidate, loop_entry_disk, original_code,
                 instrumented_unittests_created, times_run, generated_tests_elapsed_time,
                 mainBaselineVars, mainLoopVars, optOnlyVars, criticVars, compareVars, otherVars>>

\* run(): original_code is written to the file at the end of the loop body
\* (the results of the candidate are not read again)
MainRestoreOriginal ==
  /\ pc = "m_restore"
  /\ disk' = [disk EXCEPT ![ModulePath] = original_code]
  /\ candidate' = NoCandidate
  /\ test_index' = 0
  /\ equal_results' = TRUE
  /\ all_test_times' = <<>>
  /\ optimized_test_results_iter' = <<>>
  /\ gen_test_results' = <<>>
  /\ elapsed_test_seconds' = 0
  /\ pc' = "m_candidate_loop"
  /\ UNCHANGED <<test_files_on_disk, test_files_to_preserve,
                 exc, args, functions_left, function_to_optimize, candidates, candidate_index,
                 best_optimization, loop_entry_disk, original_code,
                 instrumented_unittests_created, best_runtime, times_run,
                 generated_tests_elapsed_time, mainBaselineVars, winning_test_results,
                 optOnlyVars, criticVars, compareVars, otherVars>>

\* run(): best_optimization is empty; the generated tests are removed
MainNoBestOptimization ==
  /\ pc = "m_loop_done"
  /\ best_optimization = NoBestOptimization
  /\ pc' = "m_function_loop"
  /\ MainLeaveFunction
  /\ test_files_on_disk' = test_files_on_disk \ {GeneratedTest(function_to_optimize)}
  /\ UNCHANGED <<test_files_to_preserve,
                 disk, exc, args, functions_left, original_code,
                 instrumented_unittests_created, generated_tests_elapsed_time, optOnlyVars,
                 criticVars, compareVars, otherVars>>

\* run(): unless --all, the best candidate is written to the file; the
\* explanation is saved and the changes are suggested to the PR
MainWriteBestOptimization ==
  /\ pc = "m_loop_done"
  /\ best_optimization # NoBestOptimization
  /\ disk' = IF ~args.all
             THEN [disk EXCEPT ![ModulePath] =
                     ReplacedModule(disk[ModulePath], function_to_optimize,
                                    best_optimization.candidate, ModulePath)]
             ELSE disk
  /\ pc' = "m_function_loop"
  /\ MainLeaveFunction
  /\ test_files_to_preserve' = test_files_to_preserve \cup {GeneratedTest(function_to_optimize)}
  /\ UNCHANGED <<test_files_on_disk,
                
                 exc, args, functions_left, original_code, instrumented_unittests_created,
                 generated_tests_elapsed_time, optOnlyVars, criticVars, compareVars, otherVars>>

MainCandidateApplied == {"m_candidate_tests", "m_candidate_done", "m_restore"}
MainInterruptible == {"m_baseline", "m_baseline_done", "m_candidate_loop", "m_loop_done"}
                       \cup MainCandidateApplied

\* a KeyboardInterrupt arrives in the try block of run(): no handler catches
\* it, it propagates to the finally clause (the measurements are lost, the
\* files stay as they are)
MainKeyboardInterrupt ==
  /\ pc \in MainInterruptible
  /\ exc' = [type |-> "KeyboardInterrupt", raised_at |-> pc]
  /\ pc' = "m_finally"
  /\ baseline_index' = 0
  /\ original_runtime' = 0
  /\ best_runtime' = 0
  /\ times_run' = 0
  /\ overall_original_test_results' = <<>>
  /\ original_gen_results' = <<>>
  /\ baseline_loops' = <<>>
  /\ test_index' = 0
  /\ equal_results' = TRUE
  /\ all_test_times' = <<>>
  /\ optimized_test_results_iter' = <<>>
  /\ gen_test_results' = <<>>
  /\ winning_test_results' = <<>>
  /\ elapsed_test_seconds' = 0
  /\ best_optimization' = NoBestOptimization
  /\ UNCHANGED <<test_files_on_disk, test_files_to_preserve,
                 disk, args, functions_left, function_to_optimize, candidates,
                 candidate_index, candidate, loop_entry_disk, original_code,
                 instrumented_unittests_created, generated_tests_elapsed_time, optOnlyVars,
                 criticVars, compareVars, otherVars>>

\* run(): the finally clause removes the test files, not the changes of the
\* source file; afterwards the run has returned or the exception has left it
MainFinally ==
  /\ pc = "m_finally"
  /\ pc' = IF exc = NoException THEN "m_done" ELSE "m_raised"
  /\ test_files_on_disk' =
       {file \in test_files_on_disk :
          /\ ~(file.kind = "instrumented" /\ file.fn \in instrumented_unittests_created)
          /\ ~(file.kind = "generated" /\ file \notin test_files_to_preserve)}
  /\ UNCHANGED <<elapsed_test_seconds, test_files_to_preserve,
                 disk, exc, args, functions_left, function_to_optimize, candidates,
                 candidate_index, candidate, best_optimization, loop_entry_disk, original_code,
                 instrumented_unittests_created, best_runtime, times_run,
                 generated_tests_elapsed_time, mainBaselineVars, mainLoopVars,
                 winning_test_results, optOnlyVars, criticVars, compareVars, otherVars>>

NextMain ==
  \/ MainReadFile \/ MainFunctionLoopEnd \/ MainSkipFunction \/ MainStartFunction
  \/ MainBaselineIteration \/ MainBaselineLoopEnd \/ MainBaselineFailed
  \/ MainBaselineEstablished
  \/ MainCandidateLoopEnd \/ MainSkipCandidate \/ MainWriteCandidate
  \/ MainCandidateIteration \/ MainCandidateTestsEnd \/ MainCritic \/ MainRestoreOriginal
  \/ MainNoBestOptimization \/ MainWriteBestOptimization
  \/ MainKeyboardInterrupt \/ MainFinally

SpecMain == InitMain /\ [][NextMain]_vars

\* both versions of Optimizer.run, each from its own initial state
SpecBoth == (InitOpt \/ InitMain) /\ [][Next \/ NextMain]_vars

(***************************************************************************)
(* Properties of the critics (SpecCritic).                                 *)
(***************************************************************************)
SpeedupDone == critic_call.fn = "speedup_critic" /\ critic_result # "pending"
QuantityDone == critic_call.fn = "quantity_of_tests_critic" /\ critic_result # "pending"

\* number of passed invocations of a result list, whatever their type
PassedCount(test_results) ==
  Cardinality({i \in DOMAIN test_results : test_results[i].did_pass})

\* the passed invocations of a result list are all REPLAY_TEST invocations
PassedAreReplay(test_results) ==
  \A i \in DOMAIN test_results :
     test_results[i].did_pass => test_results[i].test_type = "REPLAY_TEST"

\* the noise floor in percent: 5, doubled below 10,000 ns, doubled again in CI
NoiseFloorPercent(original, env_pr) ==
  5 * (IF original < 10000 THEN 2 ELSE 1) * (IF env_pr # 0 THEN 2 ELSE 1)

SpeedupExample(original, optimized, best, outcome) ==
  (/\ critic_call.fn = "speedup_critic"
   /\ critic_call.env_pr = 0
   /\ critic_call.original_code_runtime = original
   /\ critic_call.best_test_runtime = optimized
   /\ critic_call.best_runtime_until_now = best
   /\ critic_result # "pending") => critic_result = outcome

\* C8: speedup_critic returns True iff (original - candidate) / candidate is
\* above the noise floor (base threshold, doubled when original < 10,000 ns,
\* doubled again when a PR number is set) and candidate < best_runtime_until_now;
\* outside CI 1000 -> 800 is accepted, 1000 -> 940 rejected, 100000 -> 94000
\* accepted.  (The quotient is defined for candidate runtimes other than 0.)
C8_SpeedupCriticIff ==
  /\ (SpeedupDone /\ critic_call.best_test_runtime # 0) =>
       (critic_result = "True" <=>
          (/\ (critic_call.original_code_runtime - critic_call.best_test_runtime) * 100
                > NoiseFloorPercent(critic_call.original_code_runtime, critic_call.env_pr)
                    * critic_call.best_test_runtime
           /\ critic_call.best_test_runtime < critic_call.best_runtime_until_now))
  /\ SpeedupExample(1000, 800, 1000, "True")
  /\ SpeedupExample(1000, 940, 1000, "False")
  /\ SpeedupExample(100000, 94000, 100000, "True")

\* C8 witness: outside CI, original 1000 and candidate 940 has been rejected
\* although its gain (6.4%) is above the undoubled threshold
C8_Witness ==
  /\ SpeedupDone
  /\ critic_call.env_pr = 0
  /\ critic_call.original_code_runtime = 1000
  /\ critic_call.best_test_runtime = 940
  /\ critic_call.best_runtime_until_now = 1000
  /\ critic_result = "False"

\* C9 as stated: in CI context a candidate is accepted only if its results
\* hold at least 4 passed tests, whatever the types of the tests
C9_Original ==
  (QuantityDone /\ critic_call.env_pr # 0 /\ critic_result = "True")
     => PassedCount(critic_call.best_test_results) >= 4

\* C9 amended: in CI context quantity_of_tests_critic accepts iff the results
\* hold at least 4 passed tests, or exactly 1 passed test which is a REPLAY_TEST
C9_CiQuantity ==
  (QuantityDone /\ critic_call.env_pr # 0) =>
     (critic_result = "True" <=>
        \/ PassedCount(critic_call.best_test_results) >= 4
        \/ /\ PassedCount(critic_call.best_test_results) = 1
           /\ PassedAreReplay(critic_call.best_test_results))

\* C9 witness: in CI context, a result list with exactly 3 passed tests, none
\* of them a replay test, has been rejected
C9_Witness ==
  /\ QuantityDone
  /\ critic_call.env_pr # 0
  /\ PassedCount(critic_call.best_test_results) = 3
  /\ critic_result = "False"

HoldsOriginalContent ==
  /\ disk[ModulePath] = validated_original_code
  /\ \A p \in code_context.helper_paths : disk[p] = original_helper_code[p]

\* no file holds a definition written by a candidate of the current function
NoCandidateLeftovers ==
  /\ disk[ModulePath].def = validated_original_code.def
  /\ \A p \in code_context.helper_paths : disk[p].def = original_helper_code[p].def

\* the candidate loop has been left by an exception raised inside it
LoopLeftByException ==
  pc \in {"finally", "raised"} /\ exc.raised_at \in InsideCandidateTry

\* C2: on every way out of the candidate loop (normal completion, rejection,
\* exception, interrupt) the function's file and its helper files hold exactly
\* the content they had when the loop started.
C2_ExitLeavesFilesAsFound ==
  (pc = "loop_done" \/ LoopLeftByException) => disk = loop_entry_disk

CandidateLeftoversRemoved ==
  pc \in {"candidate_loop", "loop_done"} => NoCandidateLeftovers

InterruptRestoresOriginal ==
  (LoopLeftByException /\ exc.type = "KeyboardInterrupt") => HoldsOriginalContent

\* the candidates of the log that passed the behavioural comparison, passed
\* quantity_of_tests_critic and have a gain above the noise floor
QualifyingCandidates ==
  {i \in DOMAIN results_log :
     /\ results_log[i].status = "correct"
     /\ results_log[i].quantity
     /\ (original_code_baseline.runtime - results_log[i].runtime) * 100
          > NoiseFloorPercent(original_code_baseline.runtime, args.env_pr)
              * results_log[i].runtime}

\* the earliest candidate of minimum runtime among a non-empty set of them
EarliestMinimum(S) ==
  CHOOSE i \in S :
    \A j \in S : \/ results_log[i].runtime < results_log[j].runtime
                 \/ results_log[i].runtime = results_log[j].runtime /\ i <= j

\* C6: the loop visits every candidate, and the best optimization returned is
\* the earliest candidate of minimum runtime among those that passed the
\* behavioural comparison, passed quantity_of_tests_critic and have a gain
\* above the noise floor; it is absent iff there is none.  With original 1000
\* and candidates (fail), (950, pass), (600, pass) the result has runtime 600.
C6_BestIsEarliestMinimum ==
  pc = "loop_done" =>
    /\ Len(results_log) = candidates
    /\ IF QualifyingCandidates = {}
       THEN best_optimization = NoBestOptimization
       ELSE /\ best_optimization.candidate.id =
                 CandidateId(function_to_optimize, EarliestMinimum(QualifyingCandidates))
            /\ best_optimization.runtime =
                 results_log[EarliestMinimum(QualifyingCandidates)].runtime
    /\ (/\ original_code_baseline.runtime = 1000
        /\ Len(results_log) = 3
        /\ results_log[1].status = "incorrect"
        /\ results_log[2] = [status |-> "correct", runtime |-> 950, quantity |-> TRUE]
        /\ results_log[3] = [status |-> "correct", runtime |-> 600, quantity |-> TRUE])
         => best_optimization.runtime = 600

C6_Witness ==
  /\ pc = "loop_done"
  /\ original_code_baseline.runtime = 1000
  /\ Len(results_log) = 3
  /\ results_log[1].status = "incorrect"
  /\ results_log[2] = [status |-> "correct", runtime |-> 950, quantity |-> TRUE]
  /\ results_log[3] = [status |-> "correct", runtime |-> 600, quantity |-> TRUE]
  /\ best_optimization.candidate.id = CandidateId(function_to_optimize, 3)
  /\ best_optimization.runtime = 600

\* one step that stays in the candidate loop: the best runtime does not increase, a
\* replacement is strictly below the previous best and the original runtime,
\* and after 800 a candidate at 850 replaces nothing
BestRuntimeStep ==
  (pc \in InsideCandidateTry /\ pc' \in InsideCandidateTry) =>
    /\ best_runtime_until_now' <= best_runtime_until_now
    /\ best_optimization' # best_optimization =>
         /\ best_optimization'.runtime < best_runtime_until_now
         /\ best_optimization'.runtime < original_code_baseline.runtime
         /\ best_runtime_until_now' = best_optimization'.runtime
    /\ (best_runtime_until_now = 800 /\ pc = "critic" /\ run_results.best_test_runtime = 850)
         => best_optimization' = best_optimization

\* C7: in the candidate loop of one function best_runtime_until_now starts at
\* the original runtime and never increases; each replacement of the best
\* optimization has a runtime strictly below the previous best and strictly
\* below the original runtime (after 800, a candidate at 850 is rejected).
C7_BestRuntimeMonotone ==
  /\ []((pc = "candidate_loop" /\ candidate_index = 0)
          => best_runtime_until_now = original_code_baseline.runtime)
  /\ [][BestRuntimeStep]_vars

C7_Witness ==
  /\ pc = "restore"
  /\ Len(results_log) = 2
  /\ results_log[1] = [status |-> "correct", runtime |-> 800, quantity |-> TRUE]
  /\ results_log[2] = [status |-> "correct", runtime |-> 850, quantity |-> TRUE]
  /\ best_optimization.candidate.id = CandidateId(function_to_optimize, 1)
  /\ best_optimization.runtime = 800
  /\ best_runtime_until_now = 800

(***************************************************************************)
(* Properties of the candidate loops of both versions of Optimizer.run.    *)
(***************************************************************************)
\* the candidate of main.py has been written to the file and the interrupt
\* arrived before original_code was written back
MainInterruptedWhileApplied ==
  /\ pc \in {"m_finally", "m_raised"}
  /\ exc.type = "KeyboardInterrupt"
  /\ exc.raised_at \in MainCandidateApplied

\* C1: when a KeyboardInterrupt arrives while a candidate's source is applied
\* to the working files, the original content of the function's file and of
\* every helper file is written back before the interrupt propagates, and the
\* files then hold the content they had before the candidate was applied.
C1_InterruptRestoresFiles ==
  /\ InterruptRestoresOriginal
  /\ MainInterruptedWhileApplied =>
       (disk[ModulePath] = original_code /\ disk = loop_entry_disk)

\* the results of a candidate do not match those of the baseline: the
\* candidate has no generated-test results, an existing test has another
\* pass/fail outcome, or a generated test has another return value or stdout
ResultsMismatch(original_results, candidate_results) ==
  \/ ~\E j \in DOMAIN candidate_results :
        candidate_results[j].test_type = "GENERATED_REGRESSION"
  \/ \E i \in DOMAIN original_results, j \in DOMAIN candidate_results :
        /\ original_results[i].id = candidate_results[j].id
        /\ \/ /\ original_results[i].test_type = "EXISTING_UNIT_TEST"
              /\ original_results[i].did_pass # candidate_results[j].did_pass
           \/ /\ original_results[i].test_type = "GENERATED_REGRESSION"
              /\ \/ original_results[i].return_value # candidate_results[j].return_value
                 \/ original_results[i].stdout # candidate_results[j].stdout

\* optimization/optimizer.py: a candidate that is benchmarked or judged by the
\* critics, and the best optimization, have results that match the baseline
MismatchNotBenchmarked ==
  /\ pc \in {"run_benchmark", "critic"} =>
       ~ResultsMismatch(original_code_baseline.behavioral_test_results,
                        candidate_behavior_results)
  /\ best_optimization.winning_behavioral_test_results # <<>> =>
       ~ResultsMismatch(original_code_baseline.behavioral_test_results,
                        best_optimization.winning_behavioral_test_results)

\* main.py: when the results of the first run of the tests on a candidate do
\* not match the baseline, the measurement loop is left and no runtime has
\* been recorded; only a candidate with a recorded runtime becomes the best
\* optimization
MainMismatchStep ==
  /\ (/\ pc = "m_candidate_tests" /\ test_index = 0 /\ pc' # "m_finally"
      /\ ResultsMismatch(overall_original_test_results,
                         SelectSeq(optimized_test_results_iter',
                                   LAMBDA r : r.test_type = "EXISTING_UNIT_TEST")
                           \o gen_test_results'))
       => (all_test_times' = <<>> /\ pc' = "m_candidate_done")
  /\ (pc = "m_candidate_done" /\ pc' = "m_restore" /\ best_optimization' # best_optimization)
       => (all_test_times # <<>> /\ best_optimization'.candidate = candidate)

\* C5: a candidate whose test results do not match the baseline's (pass/fail
\* outcome of an existing test, return value or stdout of a generated test,
\* or no generated-test results at all) is not timed after the mismatch is
\* found and never becomes the best optimization.
C5_MismatchNeverTimed ==
  /\ []MismatchNotBenchmarked
  /\ [][MainMismatchStep]_vars

(***************************************************************************)
(* Properties of the measurement loops.                                    *)
(***************************************************************************)
\* the total passed-test runtime of each run of the original code so far
BaselineTotals == [k \in DOMAIN baseline_loops |-> total_passed_runtime(baseline_loops[k])]

\* the runs of the original code that count: those with a non-zero total
SuccessfulLoops == {k \in DOMAIN baseline_loops : BaselineTotals[k] # 0}

\* the earliest of the fastest successful runs
FastestLoop ==
  CHOOSE k \in SuccessfulLoops :
    \A j \in SuccessfulLoops :
       BaselineTotals[k] < BaselineTotals[j] \/ (BaselineTotals[k] = BaselineTotals[j] /\ k <= j)

CandidateStages == {"candidate_loop", "run_behavior", "run_benchmark", "critic", "restore",
                    "loop_done", "create_pr"}
MainCandidateStages == {"m_candidate_loop", "m_candidate_tests", "m_candidate_done",
                        "m_restore", "m_loop_done"}

\* no file on disk holds the text of a candidate of the function
NoCandidateOf(files, fn) ==
  \A p \in Paths :
     /\ files[p].def[fn] = 0
     /\ files[p].def["helper"] \notin {CandidateId(fn, i) : i \in 1..MaxCandidates}

\* optimization/optimizer.py: the step that follows a failed baseline removes
\* the test files of the function and continues with the next function
BaselineFailureStep ==
  (pc = "remove_instrumentation" /\ ~original_code_baseline.ok /\ pc' # "finally") =>
     /\ pc' = "function_loop"
     /\ functions_left' = functions_left
     /\ test_files_on_disk' \cap TestFilesOf(function_to_optimize) = {}
     /\ NoCandidateOf(disk', function_to_optimize)

\* main.py: the step that follows a failed baseline continues with the next
\* function; the generated tests of the function are not preserved, and only
\* a function with a best optimization has its generated tests preserved
MainBaselineFailureStep ==
  /\ (pc = "m_baseline_done" /\ times_run = 0 /\ pc' # "m_finally") =>
        /\ pc' = "m_function_loop"
        /\ functions_left' = functions_left
        /\ test_files_to_preserve' = test_files_to_preserve
        /\ disk' = disk
  /\ test_files_to_preserve' # test_files_to_preserve =>
        /\ pc = "m_loop_done"
        /\ best_optimization # NoBestOptimization
        /\ test_files_to_preserve' = test_files_to_preserve
                                       \cup {GeneratedTest(function_to_optimize)}

\* a candidate is applied or evaluated only after a baseline with test
\* results and a non-zero runtime; when main.py's run is over, the only test
\* files left are the preserved ones
BaselineBeforeCandidates ==
  /\ pc \in CandidateStages =>
       /\ original_code_baseline.behavioral_test_results # <<>>
       /\ original_code_baseline.runtime # 0
  /\ pc \in MainCandidateStages =>
       /\ original_runtime # 0
       /\ overall_original_test_results # <<>>
  /\ pc \in {"m_done", "m_raised"} => test_files_on_disk \subseteq test_files_to_preserve

ZeroTimingStep ==
  (pc = "critic" /\ run_results.best_test_runtime = 0 /\ pc' # "except_KeyboardInterrupt") =>
     /\ pc' = "restore"
     /\ best_optimization' = best_optimization

\* main.py: a candidate whose results are equal and that has no timed run is
\* not made the best optimization, and original_code is written back next
MainZeroTimingStep ==
  /\ (pc = "m_candidate_done" /\ equal_results /\ times_run = 0 /\ pc' # "m_finally") =>
        /\ pc' = "m_restore"
        /\ best_optimization' = best_optimization
  /\ (pc = "m_restore" /\ pc' # "m_finally") =>
        /\ pc' = "m_candidate_loop"
        /\ disk'[ModulePath] = original_code

\* main.py alone satisfies the claim about candidates without a timed run
MainZeroTimingFailsCandidate == [][MainZeroTimingStep]_vars

\* C13: a candidate that passes the behavioural comparison but has no timed
\* loop with a non-zero total runtime is failed: it does not become the best
\* optimization, the original source is written back and the loop continues
\* with the next candidate.
C13_ZeroTimingFailsCandidate == [][ZeroTimingStep /\ MainZeroTimingStep]_vars

\* main.py: a run of the tests is started in a measurement loop only while
\* the runs of that loop have taken no more than the ceiling and the loop
\* index is below the maximum number of runs
MeasurementRunStep ==
  (pc \in {"m_baseline", "m_candidate_tests"} /\ elapsed_test_seconds' > elapsed_test_seconds) =>
     /\ elapsed_test_seconds <= MAX_FUNCTION_TEST_SECONDS
     /\ pc = "m_baseline" => baseline_index < MAX_TEST_RUN_ITERATIONS
     /\ pc = "m_candidate_tests" => test_index < MAX_TEST_RUN_ITERATIONS

\* main.py: the number of runs of a measurement loop never exceeds the maximum
MeasurementRunsBounded ==
  /\ baseline_index <= MAX_TEST_RUN_ITERATIONS
  /\ test_index <= MAX_TEST_RUN_ITERATIONS
  /\ Len(baseline_loops) <= MAX_TEST_RUN_ITERATIONS

\* C14: the measurement loops (baseline and candidate) start no further run
\* once the cumulative elapsed test time exceeds the ceiling, even when the
\* maximum number of runs has not been reached; the number of runs is bounded
\* by both limits.
C14_LoopsRespectTimeBudget == []MeasurementRunsBounded /\ [][MeasurementRunStep]_vars

(***************************************************************************)
(* Properties of compare_test_results (SpecCompare).                       *)
(***************************************************************************)
CompareReturned == compare_pc = "returned"

\* the step-by-step run returns what the operator used by the pipelines gives
CompareStepsAgreeWithOperator ==
  CompareReturned =>
    compare_frame.returned =
      BoolName(compare_test_results(compare_call.original_results,
                                    compare_call.candidate_results))

\* C15: when the original results or the candidate results are empty,
\* compare_test_results returns False.
C15_EmptyResultsAreUnequal ==
  (CompareReturned
     /\ (Len(compare_call.original_results) = 0 \/ Len(compare_call.candidate_results) = 0))
    => compare_frame.returned = "False"

\* the call has returned, the original results are empty, the candidate's are not
C15_Witness ==
  /\ CompareReturned
  /\ Len(compare_call.original_results) = 0
  /\ Len(compare_call.candidate_results) = 2
  /\ compare_frame.returned = "False"

\* the two invocations of an id in the call being made
OriginalOf(id) == get_by_unique_invocation_loop_id(compare_call.original_results, id)
CandidateOf(id) == get_by_unique_invocation_loop_id(compare_call.candidate_results, id)
InBoth(id) == OriginalOf(id) # NoInvocation /\ CandidateOf(id) # NoInvocation

\* an id of both sets, of an existing unit test, whose pass/fail flags differ
DidPassDiffers(id) ==
  /\ InBoth(id)
  /\ OriginalOf(id).test_type = "EXISTING_UNIT_TEST"
  /\ CandidateOf(id).did_pass # OriginalOf(id).did_pass

\* C16, as stated: an id of both sets whose original invocation is an
\* EXISTING_UNIT_TEST and whose did_pass flags differ makes
\* compare_test_results return False, whatever else the sets hold.
C16_Original ==
  (CompareReturned /\ \E id \in InvocationIds : DidPassDiffers(id))
    => compare_frame.returned = "False"

\* C16, amended: an id of both sets whose original invocation is an
\* EXISTING_UNIT_TEST that did not time out, and whose did_pass flags differ,
\* makes compare_test_results return False, whatever else the sets hold.
C16_DidPassMismatchIsUnequal ==
  (CompareReturned
     /\ \E id \in InvocationIds : DidPassDiffers(id) /\ ~OriginalOf(id).timed_out)
    => compare_frame.returned = "False"

\* the call has returned False, and the pass/fail flags of id 1 are the only
\* difference the loop found
C16_Witness ==
  /\ CompareReturned
  /\ DidPassDiffers(1)
  /\ ~OriginalOf(1).timed_out
  /\ InvocationPath(OriginalOf(1), CandidateOf(1)) = "did_pass"
  /\ compare_frame.compared = {1}
  /\ compare_frame.returned = "False"

\* the ids of the call
IdsOfCall ==
  get_all_unique_invocation_loop_ids(compare_call.original_results)
    \cup get_all_unique_invocation_loop_ids(compare_call.candidate_results)

\* the two invocations differ in return value, in pass/fail flag (for a test
\* type whose flag is compared) or in cleaned stdout
ValuesMismatch(original_test_result, cdd_test_result) ==
  \/ ~comparator(original_test_result.return_value, cdd_test_result.return_value)
  \/ /\ original_test_result.test_type \in {"EXISTING_UNIT_TEST", "CONCOLIC_COVERAGE_TEST"}
     /\ cdd_test_result.did_pass # original_test_result.did_pass
  \/ ~comparator(cleanup_stdout(original_test_result.stdout),
                 cleanup_stdout(cdd_test_result.stdout))

\* an id of the original results that the candidate results lack, other than a
\* helper's initial state
MissingFromCandidate(id) ==
  /\ OriginalOf(id) # NoInvocation
  /\ CandidateOf(id) = NoInvocation
  /\ OriginalOf(id).verification_type # "INIT_STATE_HELPER"

\* nothing mismatches: no id is missing from the candidate, and no id of both
\* sets whose original invocation completed differs
NothingMismatches ==
  \A id \in IdsOfCall :
     /\ ~MissingFromCandidate(id)
     /\ (InBoth(id) /\ ~OriginalOf(id).timed_out)
          => ~ValuesMismatch(OriginalOf(id), CandidateOf(id))

AllSharedTimedOut == \A id \in IdsOfCall : InBoth(id) => OriginalOf(id).timed_out

\* C17: when every id of both sets timed out on the original side,
\* compare_test_results returns False, mismatch or not; when some id of both
\* sets did not time out on the original side and nothing mismatches, it
\* returns True.
C17_AllTimedOutIsUnequal ==
  CompareReturned =>
    /\ AllSharedTimedOut => compare_frame.returned = "False"
    /\ (~AllSharedTimedOut /\ NothingMismatches) => compare_frame.returned = "True"

\* the call has returned False although both ids are in both sets with equal
\* values: both timed out on the original side
C17_Witness ==
  /\ CompareReturned
  /\ \A id \in InvocationIds :
       /\ InBoth(id)
       /\ OriginalOf(id).timed_out
       /\ ~ValuesMismatch(OriginalOf(id), CandidateOf(id))
  /\ compare_frame.timeout_skipped = InvocationIds
  /\ compare_frame.are_equal
  /\ compare_frame.returned = "False"

\* an id of both sets that the loop has visited
Visited(id) ==
  /\ compare_pc # "entry"
  /\ InBoth(id)
  /\ id \in IdsOfCall \ compare_frame.test_ids_left

\* C18, as stated: an id is skipped on account of a timeout exactly when the
\* original and the candidate invocation both timed out; when only one side
\* timed out it is compared.
C18_Original ==
  \A id \in InvocationIds :
     Visited(id) =>
       (id \in compare_frame.timeout_skipped
          <=> (OriginalOf(id).timed_out /\ CandidateOf(id).timed_out))

\* C18, amended: an id is skipped on account of a timeout exactly when the
\* original invocation timed out, whatever the candidate's flag; when only the
\* candidate timed out the id is compared.
C18_SkippedIffOriginalTimedOut ==
  \A id \in InvocationIds :
     Visited(id) =>
       /\ id \in compare_frame.timeout_skipped <=> OriginalOf(id).timed_out
       /\ id \in compare_frame.compared <=> ~OriginalOf(id).timed_out

\* id 1 was skipped though only its original timed out; id 2 was compared
\* though its candidate timed out
C18_Witness ==
  /\ CompareReturned
  /\ InBoth(1) /\ OriginalOf(1).timed_out /\ ~CandidateOf(1).timed_out
  /\ InBoth(2) /\ ~OriginalOf(2).timed_out /\ CandidateOf(2).timed_out
  /\ compare_frame.timeout_skipped = {1}
  /\ compare_frame.compared = {2}

\* an id of the candidate results alone
CandidateOnly(id) == OriginalOf(id) = NoInvocation /\ CandidateOf(id) # NoInvocation

\* the candidate results without the invocations of the candidate alone
CandidateWithoutExtras ==
  SelectSeq(compare_call.candidate_results,
            LAMBDA inv : inv.id \in get_all_unique_invocation_loop_ids(compare_call.original_results))

\* C19: an id of the candidate results alone never makes compare_test_results
\* return False: when the candidate results without such ids compare equal,
\* so do the candidate results with them.
C19_CandidateOnlyIsIgnored ==
  (CompareReturned
     /\ compare_test_results(compare_call.original_results, CandidateWithoutExtras))
    => compare_frame.returned = "True"

\* the call has returned True with id 2 in the candidate results alone
C19_Witness ==
  /\ CompareReturned
  /\ CandidateOnly(2)
  /\ InBoth(1)
  /\ compare_test_results(compare_call.original_results, CandidateWithoutExtras)
  /\ compare_frame.returned = "True"

\* C20: an id of the original results that the candidate results lack, and
\* that is not a helper's initial state, makes compare_test_results return
\* False.
C20_MissingFromCandidateIsUnequal ==
  (CompareReturned /\ \E id \in InvocationIds : MissingFromCandidate(id))
    => compare_frame.returned = "False"

\* the call has returned False; id 1 is in both sets, completed and equal, and
\* id 2 is missing from the candidate results
C20_Witness ==
  /\ CompareReturned
  /\ InBoth(1)
  /\ ~OriginalOf(1).timed_out
  /\ ~ValuesMismatch(OriginalOf(1), CandidateOf(1))
  /\ MissingFromCandidate(2)
  /\ compare_frame.compared = {1}
  /\ ~compare_frame.did_all_timeout
  /\ compare_frame.returned = "False"

\* compare_test_results has ended: it returned, or an exception left it
CompareEnded == compare_pc \in {"returned", "raised"}

\* C21: after compare_test_results ends, by returning True or False or by an
\* exception escaping from a value comparison, the recursion limit is the
\* one of the time of the call.
C21_RecursionLimitRestored ==
  CompareEnded => recursion_limit = compare_frame.recursion_limit_at_call

\* when compare_test_results returns, the recursion limit is the one of the
\* time of the call
RecursionLimitRestoredOnReturn ==
  CompareReturned => recursion_limit = compare_frame.recursion_limit_at_call

(***************************************************************************)
(* Properties of comparator (SpecComparator).                              *)
(***************************************************************************)
ComparatorReturned == comparator_result # "pending"

\* the exact types of two values differ: at the top, at the same position of
\* two sequences of one type and one length, or under the same key of two
\* dicts of one length (a key of new is the same key when Python finds it
\* equal)
RECURSIVE TypesDiffer(_, _)
TypesDiffer(orig, new) ==
  \/ orig.type # new.type
  \/ /\ orig.type \in {"list", "tuple"}
     /\ Len(orig.value) = Len(new.value)
     /\ \E i \in DOMAIN orig.value : TypesDiffer(orig.value[i], new.value[i])
  \/ /\ orig.type = "dict"
     /\ Len(orig.value) = Len(new.value)
     /\ \E i \in DOMAIN orig.value :
          /\ dict_has(new.value, orig.value[i][1])
          /\ TypesDiffer(orig.value[i][2], dict_get(new.value, orig.value[i][1]))

C23_ComparatorIsReflexive ==
  (ComparatorReturned /\ comparator_call.new = comparator_call.orig)
    => comparator_result = "True"

\* comparator has returned True for the dict {"a": [nan, 1]} and its copy
C23_Witness ==
  /\ comparator_call.fn = "comparator"
  /\ comparator_call.orig = PyDict(<<<<PyStr("a"), PyList(<<PyNaN, PyInt(1)>>)>>>>)
  /\ comparator_call.new = comparator_call.orig
  /\ comparator_result = "True"

(***************************************************************************)
(* Properties of the batch of functions (Spec, SpecMain).                  *)
(***************************************************************************)
\* the run has left the loop over the functions
BatchStopped == pc \in {"finally", "done", "raised", "m_finally", "m_done", "m_raised"}

\* the run has left the loop over the functions before its last function
StoppedEarly == BatchStopped /\ functions_left # <<>>

\* main.py: the run leaves the loop before its last function only by an
\* interrupt
MainOnlyInterruptStopsBatch ==
  (StoppedEarly /\ pc \in {"m_finally", "m_done", "m_raised"})
    => exc.type = "KeyboardInterrupt"

\* C24: a function whose pipeline fails at a recoverable stage does not stop
\* the batch: the run leaves the loop over the functions before the last
\* function only by an interrupt.
C24_OnlyInterruptStopsBatch ==
  StoppedEarly => (exc # NoException /\ exc.type = "KeyboardInterrupt")

(***************************************************************************)
(* Properties of the test files (Spec).                                    *)
(***************************************************************************)
\* the pipeline of the function has ended: another function or none is being
\* optimized, or the run is over
PipelineEnded(fn) == function_to_optimize # fn \/ pc \in {"done", "raised"}

\* C25: when the pipeline of a function has ended (accepted, rejected,
\* baseline failure, or an interrupt that leaves the run), no generated test
\* file and no instrumented copy of an existing test of that function is on
\* disk.
C25_NoTestFilesLeft ==
  \A fn \in FunctionNames :
     PipelineEnded(fn) => test_files_on_disk \cap TestFilesOf(fn) = {}

\* as long as the run returns, no test file of an ended pipeline is on disk
NoTestFilesLeftOnReturn ==
  pc # "raised" => C25_NoTestFilesLeft


(***************************************************************************)
(* The thread pool of test generation and candidate generation             *)
(***************************************************************************)
TasksOfCall == Range(SubmitOrder(generate_call))

\* the main thread has gone past the executor block to instrumentation or to
\* the baseline run
PastTheBarrier == generate_pc \in {"instrument", "baseline", "measured"}

\* no queued task waits for a worker: the pool has a free thread for it
NoTaskWaitsForAWorker ==
  \A t \in FutureNames :
    futures[t].state = "pending" => Cardinality(Running) < max_workers(generate_call)

\* the main thread blocks only after it has submitted every task
AllSubmittedBeforeBlocking ==
  generate_pc \notin {"idle", "submit"} => Submitted = TasksOfCall

\* C26: the test-generation requests and the candidate-generation request of a
\* function run concurrently (every task is submitted before the main thread
\* blocks, and a queued task always finds a free worker of the pool), and
\* instrumentation and the baseline run start only after every one of them has
\* completed, whatever the order in which the workers start and finish.
C26_GenerationJoinsBeforeBaseline ==
  /\ NoTaskWaitsForAWorker
  /\ AllSubmittedBeforeBlocking
  /\ PastTheBarrier => \A t \in TasksOfCall : futures[t].state = "finished"

\* the main thread is held at wait() while every request of the function,
\* the test generations and the candidate generation, runs in its own worker
C26_Witness ==
  /\ generate_call.source = "optimizer"
  /\ generate_pc = "wait"
  /\ \A t \in TasksOfCall : futures[t].state = "running"

\* the baseline run is reached in both pipelines
BaselineStartsAfterGeneration ==
  generate_pc = "baseline" /\ \A t \in TasksOfCall : futures[t].outcome # "exception"

(***************************************************************************)
(* Accepted optimizations and the functions processed after them           *)
(***************************************************************************)
CandidateIdsOf(fn) == {CandidateId(fn, i) : i \in 1..MaxCandidates}

\* the files hold definitions written by a candidate of fn
AcceptedCodePresent(fn) ==
  \/ disk[ModulePath].def[fn] \in CandidateIdsOf(fn)
  \/ disk[HelperPath].def["helper"] \in CandidateIdsOf(fn)

\* the run leaves an accepted optimization in the source files
KeepsAcceptedCode == ~args.all /\ get_pr_number(args.env_pr) = 0

\* optimizer.py: f was accepted and written, and g, the next function of the
\* file, has finished its baseline and its candidate evaluation
LaterFunctionEvaluated ==
  /\ KeepsAcceptedCode
  /\ optimizations_found = 1
  /\ function_to_optimize = "g"
  /\ pc = "loop_done"

\* C27: when f's optimization has been accepted and written to the source
\* file (no --all, no PR mode) and the later function g of the same file has
\* finished its baseline and its candidate evaluation, f's accepted code is
\* still in the files.
C27_AcceptedCodeSurvivesLaterFunction ==
  LaterFunctionEvaluated => AcceptedCodePresent("f")

\* f's accepted code is in the files when the pipeline of g begins
AcceptedCodePresentWhenNextStarts ==
  (/\ KeepsAcceptedCode
   /\ optimizations_found = 1
   /\ function_to_optimize = "g"
   /\ pc = "generate") => AcceptedCodePresent("f")

\* main.py: the same statement; the generated tests of an accepted function
\* are the ones the run preserves
MainAcceptedCodeSurvivesLaterFunction ==
  (/\ ~args.all
   /\ GeneratedTest("f") \in test_files_to_preserve
   /\ function_to_optimize = "g"
   /\ pc = "m_loop_done"
   /\ candidates > 0) => AcceptedCodePresent("f")

(***************************************************************************)
(* The Tracer                                                              *)
(***************************************************************************)
\* the number of call events of a function in the events table
CallEvents(name) ==
  Len(SelectSeq(events, LAMBDA row : row.type = "call" /\ row.function = name))

\* C28: for every traced function the number of call events recorded in the
\* trace database never exceeds max_function_count, in any sequence of call
\* and return events, nested and recursive calls included.
C28_CallEventsAreCapped ==
  \A name \in QualifiedNames : CallEvents(name) <= max_function_count

\* the calls of a function are counted when they return: the events of a
\* function exceed max_function_count by no more than the calls that were
\* active together
CallEventsCappedUpToDepth ==
  \A name \in QualifiedNames : CallEvents(name) <= max_function_count + MaxDepth - 1

\* once a function is ignored, no event of it is recorded any more
IgnoredFunctionsAreNotRecorded ==
  [][\A name \in ignored_qualified_functions : CallEvents(name)' = CallEvents(name)]_vars

\* the functions the tracer has recorded as traced
TracedFunctions == {function_modules[i] : i \in 1..Len(function_modules)}

\* a return event of the function was captured: its count is positive, or it
\* reached max_function_count and the function was moved to the ignored ones
ReturnCaptured(name) ==
  \/ count_of(function_count, name) > 0
  \/ name \in ignored_qualified_functions

HandedToReplay(name) == \E i \in 1..Len(replay_functions) : replay_functions[i] = name

\* C29: when the Tracer exits, a traced function is in the list handed to
\* replay-test creation if and only if at least one return event of it was
\* captured; functions whose return count reached max_function_count are in
\* the list.
C29_ReplayListHasEveryReturnedFunction ==
  tracer_pc = "exited" =>
    \A name \in TracedFunctions : ReturnCaptured(name) <=> HandedToReplay(name)

\* the direction of C29 that the filter ensures: a function without a
\* captured return is never handed to replay-test creation, and a function
\* whose count is below max_function_count is handed over iff it returned
ReplayListHasOnlyReturnedFunctions ==
  tracer_pc = "exited" =>
    /\ \A name \in TracedFunctions : HandedToReplay(name) => ReturnCaptured(name)
    /\ \A name \in TracedFunctions \ ignored_qualified_functions :
         ReturnCaptured(name) => HandedToReplay(name)

\* a step in which trace_callback ran
TraceCallbackStep == tracer_pc = "tracing" /\ frames' # frames

\* C30: every invocation of trace_callback leaves the recursion limit of the
\* interpreter as it was before the invocation, whichever serializer
\* succeeds or fails.
C30_CallbackKeepsRecursionLimit ==
  [][TraceCallbackStep => recursion_limit' = recursion_limit]_vars

\* the invocations that record an event (pickle or dill succeeded) and the
\* invocations for return events leave the recursion limit as it was
RecordingCallbackKeepsRecursionLimit ==
  [][(TraceCallbackStep /\ (events' # events \/ Len(frames') < Len(frames)))
       => recursion_limit' = recursion_limit]_vars
============================================================================
